---- MODULE Spec2Model ----
(***************************************************************************)
(* Cleaning-machine monitoring: the yard progress model (models/yard.py),  *)
(* the machine position tracker (models/machine.py), the update engine     *)
(* (services/cleaning_service.py) and the ingestion pipeline (main.py).    *)
(*                                                                         *)
(* Numbers.  Timestamps are whole seconds, areas and cleaning speeds are   *)
(* whole numbers, so every float of the program is an exact integer here.  *)
(* A completion percentage (cleaned_area / area) * 100 is kept as the      *)
(* fraction [num, den] with den > 0, and "percentage >= k" is              *)
(* num >= k * den.                                                         *)
(*                                                                         *)
(* Optional values.  Python's Optional[T] is a sequence of length at most  *)
(* one: None is << >> and a present value v is <<v>>.                      *)
(***************************************************************************)
EXTENDS Integers, Sequences, FiniteSets, TLC

VARIABLES
    yards,            \* CleaningMonitoringSystem.yards: yard_id -> Yard
    machines,         \* CleaningMonitoringSystem.machines: machine_id -> Machine
    status_changes,   \* CleaningMonitoringSystem.status_changes
    message_count,    \* CleaningService._message_count
    error_count,      \* CleaningService._error_count
    consumed,         \* reports taken from the input so far
    processed_count,  \* reports for which _process_single_message returned True
    last_message,     \* the report handled by the last step
    last_changes,     \* what Machine.update_position returned in the last step
    last_result,      \* what _process_single_message did in the last step
    last_credit,      \* the Yard.add_work_time call of the last step, if any
    calls,            \* direct calls of Yard.add_work_time made so far
    now,              \* the wall clock (datetime.now())
    batch,            \* the sorted list handed to _process_messages_batch
    run,              \* which of two runs over batch is under way
    first,            \* the stores the first run over batch ended with
    pct,              \* quantization probe: the percentage handed in
    band,             \* quantization probe: the band handed back
    messages,         \* the list handed to simulate_transmission, as far as read
    simulator,        \* the counters of MessageTransmissionSimulator
    message_queue,    \* CleaningMonitoringSystem.message_queue, oldest first
    unfinished_tasks, \* Queue.unfinished_tasks of message_queue
    put_log,          \* every item message_queue.put was called with, in order
    processing_active, \* CleaningMonitoringSystem.processing_active
    main_pc,          \* where the thread of _process_messages_realtime is
    worker_pc,        \* where the thread of _message_processor_worker is
    worker_message,   \* the worker's local variable message, once assigned
    handed            \* what the worker handed to _process_single_message

vars == <<yards, machines, status_changes, message_count, error_count,
          consumed, processed_count, last_message, last_changes,
          last_result, last_credit, calls, now, batch, run, first,
          pct, band, messages, simulator, message_queue, unfinished_tasks,
          put_log, processing_active, main_pc, worker_pc, worker_message, handed>>

engineVars == <<machines, status_changes, message_count, error_count,
                consumed, processed_count, last_message, last_changes,
                last_result>>

twinVars == <<now, batch, run, first>>

\* the state of the real-time pipeline around the update engine
realtimeVars == <<messages, simulator, message_queue, unfinished_tasks,
                  put_log, processing_active, main_pc, worker_pc,
                  worker_message, handed>>

None == << >>

Some(v) == <<v>>

IsNone(o) == o = << >>

\* ------------------------------------------------------------------ bounds

MaxReports == 3

MaxCredits == 4

\* percentages handed to the quantization rule: k / ProbeDen for the whole
\* numbers k from -10 * ProbeDen to MaxPercent * ProbeDen
ProbeDen == 2

MaxPercent == 120

MaxClock == 1

\* ------------------------------------------------------------------ inputs

\* The yard directory handed to load_yard_directory.
YardDirectory ==
    { [yard_id |-> 1, area |-> 100, cleaning_speed |-> 1],
      [yard_id |-> 2, area |-> 1200, cleaning_speed |-> 2] }

YardIds == { d.yard_id : d \in YardDirectory }

MachineIds == {1, 2}

\* datetime values: seconds on the time line, and whether the value carries
\* a UTC offset (an "aware" datetime) or not (a "naive" one).
Datetime(s, a) == [sec |-> s, aware |-> a]

\* A timestamp string of a report: whether datetime.fromisoformat accepts it
\* and the datetime it then gives.
TimestampString(s, a) == [parses |-> TRUE, sec |-> s, aware |-> a]

Unparseable == [parses |-> FALSE, sec |-> 0, aware |-> FALSE]

\* The instants of the reports: 50 s, 70 s and 120 s apart, exactly one hour
\* apart (120 and 3720) and more than an hour apart.
Instants == {0, 50, 120, 3720}

\* Where a machine is at an instant: a point of the yard the report names,
\* moving with time.
PointOf(yard_id, sec) ==
    <<(IF IsNone(yard_id) THEN 0 ELSE 10 * yard_id[1]) + (sec % 7), sec % 5>>

Report(m, ts, y) ==
    [ machine_id |-> m, timestamp |-> ts,
      coordinates |-> PointOf(y, ts.sec), yard_id |-> y ]

\* The validated message dictionaries FileHandler.load_machine_messages
\* returns: every machine at every instant in or outside the yards of the
\* directory, one machine in a yard the directory does not have, a report
\* whose timestamp carries a UTC offset, and one whose timestamp string is
\* no ISO date.
Reports ==
    { Report(m, TimestampString(s, FALSE), y) :
        m \in MachineIds, s \in Instants,
        y \in {None} \cup { Some(i) : i \in YardIds } }
    \cup { Report(1, TimestampString(s, FALSE), Some(3)) : s \in Instants }
    \cup { Report(1, TimestampString(50, TRUE), Some(1)),
           Report(2, Unparseable, Some(1)) }

\* Seconds handed to Yard.add_work_time when it is called directly.
WorkTimes == {-5, 0, 50, 70, 120, 3600}

\* ------------------------------------------------------- models/yard.py

Bands == {0, 20, 40, 60, 80, 100}

\* a percentage as a fraction
Percentage(n, d) == [num |-> n, den |-> d]

\* get_status_by_percentage with strict comparisons
get_status_by_percentage_strict(percentage) ==
    IF percentage.num > 100 * percentage.den THEN 100
    ELSE IF percentage.num > 80 * percentage.den THEN 80
    ELSE IF percentage.num > 60 * percentage.den THEN 60
    ELSE IF percentage.num > 40 * percentage.den THEN 40
    ELSE IF percentage.num > 20 * percentage.den THEN 20
    ELSE 0

get_status_by_percentage(percentage) ==
    IF percentage.num >= 100 * percentage.den THEN 100
    ELSE IF percentage.num >= 80 * percentage.den THEN 80
    ELSE IF percentage.num >= 60 * percentage.den THEN 60
    ELSE IF percentage.num >= 40 * percentage.den THEN 40
    ELSE IF percentage.num >= 20 * percentage.den THEN 20
    ELSE 0

Yard__init__(yard_id, area, cleaning_speed) ==
    [ yard_id |-> yard_id,
      area |-> area,
      cleaning_speed |-> cleaning_speed,
      status |-> 0,
      cleaned_area |-> 0,
      total_work_time |-> 0,
      status_history |-> <<0>> ]

get_completion_percentage(yard) ==
    IF yard.area <= 0 THEN Percentage(0, 1)
    ELSE IF yard.cleaned_area * 100 > 100 * yard.area
         THEN Percentage(100, 1)
         ELSE Percentage(yard.cleaned_area * 100, yard.area)

\* add_work_time without its "work_time <= 0" guard
add_work_time_noguard(yard, work_time) ==
    LET total == yard.total_work_time + work_time
        sum == yard.cleaned_area + work_time * yard.cleaning_speed
        cleaned == IF sum > yard.area THEN yard.area ELSE sum
        y1 == [yard EXCEPT !.total_work_time = total, !.cleaned_area = cleaned]
        new_status == get_status_by_percentage(get_completion_percentage(y1))
    IN  IF new_status # yard.status
        THEN [ yard |-> [y1 EXCEPT !.status = new_status,
                                   !.status_history = Append(@, new_status)],
               result |-> Some(new_status) ]
        ELSE [ yard |-> y1, result |-> None ]

\* add_work_time returning early for work_time = 0 only
add_work_time_negative(yard, work_time) ==
    IF work_time = 0 THEN [yard |-> yard, result |-> None]
    ELSE add_work_time_noguard(yard, work_time)

\* add_work_time taking the percentage before the new area is added
add_work_time_stale(yard, work_time) ==
    IF work_time <= 0 THEN [yard |-> yard, result |-> None]
    ELSE
      LET sum == yard.cleaned_area + work_time * yard.cleaning_speed
          cleaned == IF sum > yard.area THEN yard.area ELSE sum
          y1 == [yard EXCEPT !.total_work_time = @ + work_time,
                             !.cleaned_area = cleaned]
          new_status == get_status_by_percentage(get_completion_percentage(yard))
      IN  IF new_status # yard.status
          THEN [ yard |-> [y1 EXCEPT !.status = new_status,
                                     !.status_history = Append(@, new_status)],
                 result |-> Some(new_status) ]
          ELSE [ yard |-> y1, result |-> None ]

\* add_work_time appending to status_history on every accepted call
add_work_time_always_append(yard, work_time) ==
    IF work_time <= 0 THEN [yard |-> yard, result |-> None]
    ELSE
      LET sum == yard.cleaned_area + work_time * yard.cleaning_speed
          cleaned == IF sum > yard.area THEN yard.area ELSE sum
          y1 == [yard EXCEPT !.total_work_time = @ + work_time,
                             !.cleaned_area = cleaned]
          new_status == get_status_by_percentage(get_completion_percentage(y1))
      IN  [ yard |-> [y1 EXCEPT !.status = new_status,
                                !.status_history = Append(@, new_status)],
            result |-> IF new_status # yard.status THEN Some(new_status) ELSE None ]

\* add_work_time without the clamp of cleaned_area to area
add_work_time_noclamp(yard, work_time) ==
    IF work_time <= 0 THEN [yard |-> yard, result |-> None]
    ELSE
      LET y1 == [yard EXCEPT !.total_work_time = @ + work_time,
                             !.cleaned_area = @ + work_time * yard.cleaning_speed]
          new_status == get_status_by_percentage(get_completion_percentage(y1))
      IN  IF new_status # yard.status
          THEN [ yard |-> [y1 EXCEPT !.status = new_status,
                                     !.status_history = Append(@, new_status)],
                 result |-> Some(new_status) ]
          ELSE [ yard |-> y1, result |-> None ]

\* add_work_time that counts the time of a call only when the area it cleans
\* still fits in the yard
add_work_time_clamp_time(yard, work_time) ==
    IF work_time <= 0 THEN [yard |-> yard, result |-> None]
    ELSE
      LET sum == yard.cleaned_area + work_time * yard.cleaning_speed
          total == IF sum > yard.area THEN yard.total_work_time
                   ELSE yard.total_work_time + work_time
          cleaned == IF sum > yard.area THEN yard.area ELSE sum
          y1 == [yard EXCEPT !.total_work_time = total, !.cleaned_area = cleaned]
          new_status == get_status_by_percentage(get_completion_percentage(y1))
      IN  IF new_status # yard.status
          THEN [ yard |-> [y1 EXCEPT !.status = new_status,
                                     !.status_history = Append(@, new_status)],
                 result |-> Some(new_status) ]
          ELSE [ yard |-> y1, result |-> None ]

\* add_work_time entering every band it passes in status_history
add_work_time_every_band(yard, work_time) ==
    IF work_time <= 0 THEN [yard |-> yard, result |-> None]
    ELSE
      LET sum == yard.cleaned_area + work_time * yard.cleaning_speed
          cleaned == IF sum > yard.area THEN yard.area ELSE sum
          y1 == [yard EXCEPT !.total_work_time = @ + work_time,
                             !.cleaned_area = cleaned]
          new_status == get_status_by_percentage(get_completion_percentage(y1))
          passed == SelectSeq(<<20, 40, 60, 80, 100>>,
                              LAMBDA b : b > yard.status /\ b <= new_status)
      IN  IF new_status # yard.status
          THEN [ yard |-> [y1 EXCEPT !.status = new_status,
                                     !.status_history = @ \o passed],
                 result |-> Some(new_status) ]
          ELSE [ yard |-> y1, result |-> None ]

\* Yard.add_work_time: the yard after the call and the value returned.
add_work_time(yard, work_time) ==
    IF work_time <= 0 THEN [yard |-> yard, result |-> None]
    ELSE
      LET total == yard.total_work_time + work_time
          cleaned_by_this_work == work_time * yard.cleaning_speed
          sum == yard.cleaned_area + cleaned_by_this_work
          cleaned == IF sum > yard.area THEN yard.area ELSE sum
          y1 == [yard EXCEPT !.total_work_time = total, !.cleaned_area = cleaned]
          new_status == get_status_by_percentage(get_completion_percentage(y1))
      IN  IF new_status # yard.status
          THEN [ yard |-> [y1 EXCEPT !.status = new_status,
                                     !.status_history = Append(@, new_status)],
                 result |-> Some(new_status) ]
          ELSE [ yard |-> y1, result |-> None ]

\* ---------------------------------------------------- models/machine.py

\* __post_init__ turning away coordinates below zero as well
MachineMessage_invalid_negative(machine_id, coordinates, yard_id) ==
    \/ machine_id <= 0
    \/ Len(coordinates) # 2
    \/ (~IsNone(yard_id) /\ yard_id[1] <= 0)
    \/ \E i \in 1..Len(coordinates) : coordinates[i] < 0

\* MachineMessage.__post_init__: TRUE when it raises ValueError.
MachineMessage_invalid(machine_id, coordinates, yard_id) ==
    \/ machine_id <= 0
    \/ Len(coordinates) # 2
    \/ (~IsNone(yard_id) /\ yard_id[1] <= 0)

\* a new machine that starts out in yard 1 since the beginning of time
Machine__init__in_yard(machine_id) ==
    [ machine_id |-> machine_id,
      current_coordinates |-> <<0, 0>>,
      last_update |-> <<[sec |-> 0, aware |-> FALSE]>>,
      current_yard_id |-> <<1>>,
      previous_yard_id |-> << >>,
      yard_work_history |-> << >>,
      yard_entry_time |-> <<[sec |-> 0, aware |-> FALSE]>> ]

Machine__init__(machine_id) ==
    [ machine_id |-> machine_id,
      current_coordinates |-> <<0, 0>>,
      last_update |-> None,
      current_yard_id |-> None,
      previous_yard_id |-> None,
      yard_work_history |-> << >>,
      yard_entry_time |-> None ]

\* _calculate_work_time without the limit of one hour
calculate_work_time_nocap(start_time, end_time) ==
    IF IsNone(start_time) \/ IsNone(end_time)
    THEN [raised |-> FALSE, seconds |-> 0]
    ELSE IF start_time[1].aware # end_time[1].aware
    THEN [raised |-> TRUE, seconds |-> 0]
    ELSE LET seconds == end_time[1].sec - start_time[1].sec
         IN  IF seconds < 0
             THEN [raised |-> FALSE, seconds |-> 0]
             ELSE [raised |-> FALSE, seconds |-> seconds]

\* _calculate_work_time discarding a gap of exactly one hour as well
calculate_work_time_exclusive(start_time, end_time) ==
    IF IsNone(start_time) \/ IsNone(end_time)
    THEN [raised |-> FALSE, seconds |-> 0]
    ELSE IF start_time[1].aware # end_time[1].aware
    THEN [raised |-> TRUE, seconds |-> 0]
    ELSE LET seconds == end_time[1].sec - start_time[1].sec
         IN  IF seconds < 0 \/ seconds >= 3600
             THEN [raised |-> FALSE, seconds |-> 0]
             ELSE [raised |-> FALSE, seconds |-> seconds]

\* Machine._calculate_work_time.  Subtracting a naive datetime from an
\* aware one (or the reverse) raises TypeError.
calculate_work_time(start_time, end_time) ==
    IF IsNone(start_time) \/ IsNone(end_time)
    THEN [raised |-> FALSE, seconds |-> 0]
    ELSE IF start_time[1].aware # end_time[1].aware
    THEN [raised |-> TRUE, seconds |-> 0]
    ELSE LET seconds == end_time[1].sec - start_time[1].sec
         IN  IF seconds < 0 \/ seconds > 3600
             THEN [raised |-> FALSE, seconds |-> 0]
             ELSE [raised |-> FALSE, seconds |-> seconds]

\* _add_work_time taking the work time off the record instead of adding it
machine_add_work_time_subtract(history, yard_id, work_time) ==
    LET h0 == IF yard_id \in DOMAIN history THEN history
              ELSE (yard_id :> 0) @@ history
    IN  [h0 EXCEPT ![yard_id] = @ - work_time]

\* _add_work_time assigning the work time instead of adding it
machine_add_work_time_assign(history, yard_id, work_time) ==
    LET h0 == IF yard_id \in DOMAIN history THEN history
              ELSE (yard_id :> 0) @@ history
    IN  [h0 EXCEPT ![yard_id] = work_time]

\* Machine._add_work_time: the new yard_work_history.
machine_add_work_time(history, yard_id, work_time) ==
    LET h0 == IF yard_id \in DOMAIN history THEN history
              ELSE (yard_id :> 0) @@ history
    IN  [h0 EXCEPT ![yard_id] = @ + work_time]

\* the descriptor starting out with a work time already in it
NoChanges_with_work_time ==
    [ position_changed |-> FALSE,
      yard_changed |-> FALSE,
      entered_yard |-> << >>,
      left_yard |-> << >>,
      work_time_added |-> 50 ]

NoChanges ==
    [ position_changed |-> FALSE,
      yard_changed |-> FALSE,
      entered_yard |-> None,
      left_yard |-> None,
      work_time_added |-> 0 ]

\* as entry_time_on, but the entry time is set whatever the report names
entry_time_on_any(message) == Some(message.timestamp)

\* the _yard_entry_time a report that changes the yard leaves: its timestamp
\* when it names a yard, None when it names none
entry_time_on(message) ==
    IF ~IsNone(message.yard_id) THEN Some(message.timestamp) ELSE None

\* Machine.update_position: the machine after the call, the dictionary
\* returned, and whether the call raised instead of returning (the machine
\* then keeps what was assigned before the exception).
update_position(machine, message) ==
    LET m0 == [machine EXCEPT !.current_coordinates = message.coordinates]
        c0 == [NoChanges EXCEPT !.position_changed =
                                  (machine.current_coordinates # message.coordinates)]
        wt == calculate_work_time(machine.last_update, Some(message.timestamp))
    IN
    IF machine.current_yard_id # message.yard_id
    THEN
      LET leaving == ~IsNone(machine.current_yard_id)
                     /\ ~IsNone(machine.yard_entry_time)
          c1 == [c0 EXCEPT !.yard_changed = TRUE]
      IN
      IF leaving /\ wt.raised
      THEN [machine |-> m0, changes |-> c1, raised |-> TRUE]
      ELSE
        LET credited == leaving /\ wt.seconds > 0
            m1 == IF credited
                  THEN [m0 EXCEPT !.yard_work_history =
                          machine_add_work_time(@, machine.current_yard_id[1], wt.seconds)]
                  ELSE m0
            c2 == IF credited
                  THEN [c1 EXCEPT !.work_time_added = wt.seconds,
                                  !.left_yard = machine.current_yard_id]
                  ELSE c1
            m2 == [m1 EXCEPT !.previous_yard_id = machine.current_yard_id,
                             !.current_yard_id = message.yard_id,
                             !.yard_entry_time = entry_time_on(message),
                             !.last_update = Some(message.timestamp)]
            c3 == IF ~IsNone(message.yard_id)
                  THEN [c2 EXCEPT !.entered_yard = message.yard_id]
                  ELSE c2
        IN [machine |-> m2, changes |-> c3, raised |-> FALSE]
    ELSE IF ~IsNone(machine.current_yard_id)
            /\ ~IsNone(machine.last_update)
            /\ ~IsNone(machine.yard_entry_time)
    THEN
      IF wt.raised
      THEN [machine |-> m0, changes |-> c0, raised |-> TRUE]
      ELSE
        LET m1 == IF wt.seconds > 0
                  THEN [m0 EXCEPT !.yard_work_history =
                          machine_add_work_time(@, machine.current_yard_id[1], wt.seconds)]
                  ELSE m0
            c1 == IF wt.seconds > 0
                  THEN [c0 EXCEPT !.work_time_added = wt.seconds]
                  ELSE c0
        IN [ machine |-> [m1 EXCEPT !.last_update = Some(message.timestamp)],
             changes |-> c1, raised |-> FALSE ]
    ELSE [ machine |-> [m0 EXCEPT !.last_update = Some(message.timestamp)],
           changes |-> c0, raised |-> FALSE ]

\* ------------------------------------------- services/cleaning_service.py

\* the status change with the old and the new status in each other's place
StatusChange_swapped(yard, old_status, new_status, timestamp, machine, work_time) ==
    [ yard_id |-> yard.yard_id,
      old_status |-> new_status,
      new_status |-> old_status,
      timestamp |-> timestamp,
      machine_id |-> machine.machine_id,
      work_time_added |-> work_time ]

\* the status change stamped with the wall clock instead of the report's time
StatusChange_wallclock(yard, old_status, new_status, timestamp, machine, work_time) ==
    [ yard_id |-> yard.yard_id,
      old_status |-> old_status,
      new_status |-> new_status,
      timestamp |-> Datetime(now, FALSE),
      machine_id |-> machine.machine_id,
      work_time_added |-> work_time ]

\* the status change that always names band 0 as the old status
StatusChange_from_zero(yard, old_status, new_status, timestamp, machine, work_time) ==
    [ yard_id |-> yard.yard_id,
      old_status |-> 0,
      new_status |-> new_status,
      timestamp |-> timestamp,
      machine_id |-> machine.machine_id,
      work_time_added |-> work_time ]

\* the dictionary both call sites build when add_work_time returns a status
StatusChange(yard, old_status, new_status, timestamp, machine, work_time) ==
    [ yard_id |-> yard.yard_id,
      old_status |-> old_status,
      new_status |-> new_status,
      timestamp |-> timestamp,
      machine_id |-> machine.machine_id,
      work_time_added |-> work_time ]

NoCredit == None

Credit(yard_id, work_time, result) ==
    Some([yard_id |-> yard_id, work_time |-> work_time, result |-> result])

\* _handle_yard_change crediting the yard entered as well as the yard left
handle_yard_change_both(machine, changes, ys, timestamp) ==
    IF ~IsNone(changes.left_yard)
       /\ changes.left_yard[1] \in DOMAIN ys
       /\ changes.work_time_added > 0
    THEN
      LET left_yard_id == changes.left_yard[1]
          work_time == changes.work_time_added
          old_status == ys[left_yard_id].status
          r == add_work_time(ys[left_yard_id], work_time)
          left == [ys EXCEPT ![left_yard_id] = r.yard]
          both == IF ~IsNone(changes.entered_yard)
                     /\ changes.entered_yard[1] \in DOMAIN ys
                  THEN [left EXCEPT ![changes.entered_yard[1]] =
                          add_work_time(@, work_time).yard]
                  ELSE left
      IN  [ yards |-> both,
            status_change |->
                IF ~IsNone(r.result)
                THEN Some(StatusChange(r.yard, old_status, r.result[1],
                                       timestamp, machine, work_time))
                ELSE None,
            credit |-> Credit(left_yard_id, work_time, r.result) ]
    ELSE [yards |-> ys, status_change |-> None, credit |-> NoCredit]

\* _handle_yard_change crediting the yard entered instead of the yard left
handle_yard_change_entered(machine, changes, ys, timestamp) ==
    IF ~IsNone(changes.entered_yard)
       /\ changes.entered_yard[1] \in DOMAIN ys
       /\ changes.work_time_added > 0
    THEN
      LET yard_id == changes.entered_yard[1]
          work_time == changes.work_time_added
          old_status == ys[yard_id].status
          r == add_work_time(ys[yard_id], work_time)
      IN  [ yards |-> [ys EXCEPT ![yard_id] = r.yard],
            status_change |->
                IF ~IsNone(r.result)
                THEN Some(StatusChange(r.yard, old_status, r.result[1],
                                       timestamp, machine, work_time))
                ELSE None,
            credit |-> Credit(yard_id, work_time, r.result) ]
    ELSE [yards |-> ys, status_change |-> None, credit |-> NoCredit]

\* _handle_yard_change losing the status change it built
handle_yard_change_noreturn(machine, changes, ys, timestamp) ==
    IF ~IsNone(changes.left_yard)
       /\ changes.left_yard[1] \in DOMAIN ys
       /\ changes.work_time_added > 0
    THEN
      LET left_yard_id == changes.left_yard[1]
          work_time == changes.work_time_added
          r == add_work_time(ys[left_yard_id], work_time)
      IN  [ yards |-> [ys EXCEPT ![left_yard_id] = r.yard],
            status_change |-> None,
            credit |-> Credit(left_yard_id, work_time, r.result) ]
    ELSE [yards |-> ys, status_change |-> None, credit |-> NoCredit]

\* as handle_yard_change, but a yard the directory does not have is added
\* to the yards when a machine enters it
handle_yard_change_registers(machine, changes, ys, timestamp) ==
    LET known ==
          IF ~IsNone(changes.entered_yard) /\ changes.entered_yard[1] \notin DOMAIN ys
          THEN (changes.entered_yard[1] :> Yard__init__(changes.entered_yard[1], 1, 1))
               @@ ys
          ELSE ys
    IN
    IF ~IsNone(changes.left_yard)
       /\ changes.left_yard[1] \in DOMAIN ys
       /\ changes.work_time_added > 0
    THEN
      LET left_yard_id == changes.left_yard[1]
          work_time == changes.work_time_added
          old_status == ys[left_yard_id].status
          r == add_work_time(ys[left_yard_id], work_time)
      IN  [ yards |-> [known EXCEPT ![left_yard_id] = r.yard],
            status_change |->
                IF ~IsNone(r.result)
                THEN Some(StatusChange(r.yard, old_status, r.result[1],
                                       timestamp, machine, work_time))
                ELSE None,
            credit |-> Credit(left_yard_id, work_time, r.result) ]
    ELSE [yards |-> known, status_change |-> None, credit |-> NoCredit]

\* _handle_yard_change crediting every yard of the directory with the time
\* worked in the yard left
handle_yard_change_all(machine, changes, ys, timestamp) ==
    IF ~IsNone(changes.left_yard)
       /\ changes.left_yard[1] \in DOMAIN ys
       /\ changes.work_time_added > 0
    THEN
      LET left_yard_id == changes.left_yard[1]
          work_time == changes.work_time_added
          old_status == ys[left_yard_id].status
          r == add_work_time(ys[left_yard_id], work_time)
      IN  [ yards |-> [y \in DOMAIN ys |-> add_work_time(ys[y], work_time).yard],
            status_change |->
                IF ~IsNone(r.result)
                THEN Some(StatusChange(r.yard, old_status, r.result[1],
                                       timestamp, machine, work_time))
                ELSE None,
            credit |-> Credit(left_yard_id, work_time, r.result) ]
    ELSE [yards |-> ys, status_change |-> None, credit |-> NoCredit]

\* _handle_yard_change crediting the yard left twice over
handle_yard_change_twice(machine, changes, ys, timestamp) ==
    IF ~IsNone(changes.left_yard)
       /\ changes.left_yard[1] \in DOMAIN ys
       /\ changes.work_time_added > 0
    THEN
      LET left_yard_id == changes.left_yard[1]
          work_time == changes.work_time_added
          old_status == ys[left_yard_id].status
          r == add_work_time(add_work_time(ys[left_yard_id], work_time).yard,
                             work_time)
      IN  [ yards |-> [ys EXCEPT ![left_yard_id] = r.yard],
            status_change |->
                IF r.yard.status # old_status
                THEN Some(StatusChange(r.yard, old_status, r.yard.status,
                                       timestamp, machine, work_time))
                ELSE None,
            credit |-> Credit(left_yard_id, work_time, r.result) ]
    ELSE [yards |-> ys, status_change |-> None, credit |-> NoCredit]

\* CleaningService._handle_yard_change: the yards after the call, the value
\* returned, and the add_work_time call made (if any).  Entering a yard only
\* logs.
handle_yard_change(machine, changes, ys, timestamp) ==
    IF ~IsNone(changes.left_yard)
       /\ changes.left_yard[1] \in DOMAIN ys
       /\ changes.work_time_added > 0
    THEN
      LET left_yard_id == changes.left_yard[1]
          work_time == changes.work_time_added
          old_status == ys[left_yard_id].status
          r == add_work_time(ys[left_yard_id], work_time)
      IN  [ yards |-> [ys EXCEPT ![left_yard_id] = r.yard],
            status_change |->
                IF ~IsNone(r.result)
                THEN Some(StatusChange(r.yard, old_status, r.result[1],
                                       timestamp, machine, work_time))
                ELSE None,
            credit |-> Credit(left_yard_id, work_time, r.result) ]
    ELSE [yards |-> ys, status_change |-> None, credit |-> NoCredit]

\* CleaningService.process_machine_update, the counters left to the caller:
\* the machine and the yards after the call, the value returned, whether the
\* except clause ran, what update_position returned, the add_work_time call.
process_machine_update(machine, message, ys) ==
    LET u == update_position(machine, message)
    IN
    IF u.raised
    THEN [ machine |-> u.machine, yards |-> ys, status_change |-> None,
           failed |-> TRUE, changes |-> None, credit |-> NoCredit ]
    ELSE IF u.changes.yard_changed
    THEN
      LET h == handle_yard_change(u.machine, u.changes, ys, message.timestamp)
      IN  [ machine |-> u.machine, yards |-> h.yards,
            status_change |-> h.status_change,
            failed |-> FALSE, changes |-> Some(u.changes), credit |-> h.credit ]
    ELSE IF u.changes.work_time_added > 0
            /\ ~IsNone(u.machine.current_yard_id)
            /\ u.machine.current_yard_id[1] \in DOMAIN ys
    THEN
      LET yard_id == u.machine.current_yard_id[1]
          old_status == ys[yard_id].status
          r == add_work_time(ys[yard_id], u.changes.work_time_added)
      IN  [ machine |-> u.machine,
            yards |-> [ys EXCEPT ![yard_id] = r.yard],
            status_change |->
                IF ~IsNone(r.result)
                THEN Some(StatusChange(r.yard, old_status, r.result[1],
                                       message.timestamp, u.machine,
                                       u.changes.work_time_added))
                ELSE None,
            failed |-> FALSE, changes |-> Some(u.changes),
            credit |-> Credit(yard_id, u.changes.work_time_added, r.result) ]
    ELSE [ machine |-> u.machine, yards |-> ys, status_change |-> None,
           failed |-> FALSE, changes |-> Some(u.changes), credit |-> NoCredit ]

\* CleaningService.get_processing_statistics, from the two counters
get_processing_statistics(messages_counted, errors_counted) ==
    [ total_messages_processed |-> messages_counted,
      successful_messages |-> messages_counted - errors_counted,
      failed_messages |-> errors_counted ]

\* CleaningService.validate_yard_consistency: the yards it reports.
validate_yard_consistency(ys) ==
    { y \in DOMAIN ys :
        \/ ys[y].status # get_status_by_percentage(get_completion_percentage(ys[y]))
        \/ ys[y].cleaned_area > ys[y].area
        \/ ys[y].cleaned_area < 0
        \/ ys[y].total_work_time < 0 }

\* ------------------------------------------------------------------ main.py

\* datetime.fromisoformat on the report's timestamp string
fromisoformat(ts) == Datetime(ts.sec, ts.aware)

\* CleaningMonitoringSystem.load_yard_directory
load_yard_directory ==
    [ y \in YardIds |->
        LET d == CHOOSE e \in YardDirectory : e.yard_id = y
        IN  Yard__init__(d.yard_id, d.area, d.cleaning_speed) ]

\* CleaningMonitoringSystem._process_single_message on a report
process_single_message(message_data) ==
    /\ consumed' = consumed + 1
    /\ last_message' = Some(message_data)
    /\ UNCHANGED <<calls, pct, band>>
    /\ IF ~message_data.timestamp.parses
          \/ MachineMessage_invalid(message_data.machine_id,
                                    message_data.coordinates, message_data.yard_id)
       THEN \* the constructor of MachineMessage or fromisoformat raised
            /\ last_result' = [ok |-> FALSE, status_change |-> None]
            /\ last_changes' = None
            /\ last_credit' = NoCredit
            /\ UNCHANGED <<yards, machines, status_changes, message_count,
                           error_count, processed_count>>
       ELSE
         LET message == [ machine_id |-> message_data.machine_id,
                          timestamp |-> fromisoformat(message_data.timestamp),
                          coordinates |-> message_data.coordinates,
                          yard_id |-> message_data.yard_id ]
             known == IF message.machine_id \in DOMAIN machines THEN machines
                      ELSE (message.machine_id :> Machine__init__(message.machine_id))
                           @@ machines
             r == process_machine_update(known[message.machine_id], message, yards)
         IN  /\ message_count' = message_count + 1
             /\ error_count' = IF r.failed THEN error_count + 1 ELSE error_count
             /\ machines' = [known EXCEPT ![message.machine_id] = r.machine]
             /\ yards' = r.yards
             /\ status_changes' = IF ~IsNone(r.status_change)
                                  THEN Append(status_changes, r.status_change[1])
                                  ELSE status_changes
             /\ processed_count' = processed_count + 1
             /\ last_result' = [ok |-> TRUE, status_change |-> r.status_change]
             /\ last_changes' = r.changes
             /\ last_credit' = r.credit

\* _process_single_message called by the batch loop (_process_messages_batch)
\* on the next report of its list
ProcessSingleMessage(message_data) ==
    /\ consumed < MaxReports
    /\ process_single_message(message_data)

\* the counters a new MessageTransmissionSimulator starts with
MessageTransmissionSimulator__init__ ==
    [ total_generated |-> 0, total_lost |-> 0,
      total_delayed |-> 0, total_with_errors |-> 0 ]

\* the state after CleaningMonitoringSystem.__init__ and load_yard_directory
Init ==
    /\ yards = load_yard_directory
    /\ machines = << >>
    /\ status_changes = << >>
    /\ message_count = 0
    /\ error_count = 0
    /\ consumed = 0
    /\ processed_count = 0
    /\ last_message = None
    /\ last_changes = None
    /\ last_result = [ok |-> TRUE, status_change |-> None]
    /\ last_credit = NoCredit
    /\ calls = 0
    /\ now = 0
    /\ batch = << >>
    /\ run = 1
    /\ first = None
    /\ pct = Percentage(0, ProbeDen)
    /\ band = None
    /\ messages = << >>
    /\ simulator = MessageTransmissionSimulator__init__
    /\ message_queue = << >>
    /\ unfinished_tasks = 0
    /\ put_log = << >>
    /\ processing_active = FALSE
    /\ main_pc = "process_messages_realtime"
    /\ worker_pc = "not_started"
    /\ worker_message = None
    /\ handed = << >>

Next == \E message_data \in Reports :
            /\ ProcessSingleMessage(message_data)
            /\ UNCHANGED <<twinVars, realtimeVars>>

\* the batch run of the update engine over any list of reports
Spec == Init /\ [][Next]_vars

\* ------------------------------------------- the yard model on its own

\* a caller of Yard.add_work_time(work_time) on the yard yard_id
AddWorkTime(yard_id, work_time) ==
    /\ calls < MaxCredits
    /\ calls' = calls + 1
    /\ LET r == add_work_time(yards[yard_id], work_time)
       IN  /\ yards' = [yards EXCEPT ![yard_id] = r.yard]
           /\ last_credit' = Credit(yard_id, work_time, r.result)
    /\ UNCHANGED <<engineVars, twinVars, realtimeVars, pct, band>>

NextYard == \E yard_id \in YardIds, work_time \in WorkTimes :
                AddWorkTime(yard_id, work_time)

SpecYard == Init /\ [][NextYard]_vars

\* ------------------------------------ the quantization rule on its own

Probes == { Percentage(k, ProbeDen) :
              k \in (0 - 10 * ProbeDen) .. (MaxPercent * ProbeDen) }

\* a caller of YardStatus.get_status_by_percentage(percentage)
GetStatusByPercentage(percentage) ==
    /\ pct' = percentage
    /\ band' = Some(get_status_by_percentage(percentage))
    /\ UNCHANGED <<yards, engineVars, twinVars, realtimeVars, last_credit, calls>>

NextBand == \E percentage \in Probes : GetStatusByPercentage(percentage)

SpecBand == Init /\ [][NextBand]_vars

\* ----------------------------- two batch runs over one sorted list

\* the order messages.sort(key=lambda x: x['timestamp']) puts two timestamp
\* strings of one ISO format in: by instant, a string with a UTC offset
\* after the same string without it, a string that is no date last
TimestampLeq(a, b) ==
    \/ ~b.parses
    \/ /\ a.parses
       /\ \/ a.sec < b.sec
          \/ (a.sec = b.sec /\ (b.aware \/ ~a.aware))

\* the reports the two runs draw their list from
BatchReports ==
    { r \in Reports :
        /\ r.timestamp.parses /\ ~r.timestamp.aware
        /\ r.timestamp.sec <= 120
        /\ r.yard_id \in {None, Some(1)} }

\* what a run leaves behind: the yard store, the machine store and the
\* list of status changes
Stores == [yards |-> yards, machines |-> machines, status_changes |-> status_changes]

\* the first run handles one more report of the list being drawn
FirstRun(message_data) ==
    /\ run = 1
    /\ IF batch = << >> THEN TRUE
       ELSE TimestampLeq(batch[Len(batch)].timestamp, message_data.timestamp)
    /\ batch' = Append(batch, message_data)
    /\ ProcessSingleMessage(message_data)
    /\ UNCHANGED <<now, run, first, realtimeVars>>

\* the first run ends; a second CleaningMonitoringSystem is constructed and
\* loads the same yard directory
Restart ==
    /\ run = 1
    /\ run' = 2
    /\ first' = Some(Stores)
    /\ yards' = load_yard_directory
    /\ machines' = << >>
    /\ status_changes' = << >>
    /\ message_count' = 0
    /\ error_count' = 0
    /\ consumed' = 0
    /\ processed_count' = 0
    /\ last_message' = None
    /\ last_changes' = None
    /\ last_result' = [ok |-> TRUE, status_change |-> None]
    /\ last_credit' = NoCredit
    /\ UNCHANGED <<now, batch, calls, pct, band, realtimeVars>>

\* the second run handles the next report of the same list
SecondRun ==
    /\ run = 2
    /\ consumed < Len(batch)
    /\ ProcessSingleMessage(batch[consumed + 1])
    /\ UNCHANGED <<twinVars, realtimeVars>>

\* time passes
Tick ==
    /\ now < MaxClock
    /\ now' = now + 1
    /\ UNCHANGED <<yards, engineVars, last_credit, calls, batch, run, first,
                   pct, band, realtimeVars>>

NextTwin ==
    \/ \E message_data \in BatchReports : FirstRun(message_data)
    \/ Restart
    \/ SecondRun
    \/ Tick

SpecTwin == Init /\ [][NextTwin]_vars

\* ------------------------- a longer batch run of two machines in one yard

\* the longest list of this run
MaxShared == 4

\* the batch loop handles one more report of a list drawn from BatchReports,
\* in any order
ProcessMessagesBatch(message_data) ==
    /\ consumed < MaxShared
    /\ process_single_message(message_data)
    /\ UNCHANGED <<twinVars, realtimeVars>>

NextShared == \E message_data \in BatchReports : ProcessMessagesBatch(message_data)

SpecShared == Init /\ [][NextShared]_vars

\* ------------------------------- one batch run over any sorted list

\* the batch loop handles the next report of a list that
\* process_machine_messages has sorted by timestamp
NextSorted == \E message_data \in Reports : FirstRun(message_data)

SpecSorted == Init /\ [][NextSorted]_vars

\* ------------------------------------------------ the real-time pipeline

\* the longest list handed to _process_messages_realtime
MaxSent == 2

\* the sorted lists _process_messages_realtime is handed are drawn from
\* these reports; the last has a timestamp string that is no ISO date, which
\* the loader lets through as it is a string
RealtimeReports ==
    { Report(1, TimestampString(0, FALSE), Some(1)),
      Report(1, TimestampString(50, FALSE), Some(1)),
      Report(2, TimestampString(50, FALSE), None),
      Report(1, TimestampString(120, FALSE), None),
      Report(2, Unparseable, Some(1)) }

\* as add_coordinate_error, where the report that was put out of place also
\* loses its yard
add_coordinate_error_and_yard(message_data) ==
    LET x == message_data.coordinates[1]
        y == message_data.coordinates[2]
    IN  { [message_data EXCEPT !.coordinates = c, !.yard_id = None] :
            c \in { <<y, x>>, <<x + 1, y - 1>> } }

\* what _add_coordinate_error can make of the copy of a report: the two
\* coordinates swapped, or moved by an offset; nothing else of it changes
add_coordinate_error(message_data) ==
    LET x == message_data.coordinates[1]
        y == message_data.coordinates[2]
    IN  { [message_data EXCEPT !.coordinates = c] :
            c \in { <<y, x>>, <<x + 1, y - 1>> } }

\* MessageTransmissionSimulator.get_transmission_stats, the counts of it (the
\* two rates are quotients of these)
get_transmission_stats(counters) ==
    [ total_generated |-> counters.total_generated,
      total_delivered |-> counters.total_generated - counters.total_lost,
      total_lost |-> counters.total_lost,
      total_delayed |-> counters.total_delayed,
      total_with_errors |-> counters.total_with_errors ]

\* put on a queue that holds one item and lets go of what does not fit
put_drop_when_full(item) ==
    /\ message_queue' = IF message_queue = << >> THEN <<item>> ELSE message_queue
    /\ unfinished_tasks' = IF message_queue = << >> THEN unfinished_tasks + 1
                           ELSE unfinished_tasks
    /\ put_log' = Append(put_log, item)

\* Queue.put(item): the item joins the end of the queue and counts as an
\* unfinished task
put(item) ==
    /\ message_queue' = Append(message_queue, item)
    /\ unfinished_tasks' = unfinished_tasks + 1
    /\ put_log' = Append(put_log, item)

\* Queue.task_done()
task_done ==
    unfinished_tasks' = unfinished_tasks - 1

\* _process_messages_realtime up to the start of the worker thread
StartWorker ==
    /\ main_pc = "process_messages_realtime"
    /\ main_pc' = "simulate_transmission"
    /\ processing_active' = TRUE
    /\ worker_pc' = "while"
    /\ UNCHANGED <<yards, engineVars, twinVars, last_credit, calls, pct, band,
                   messages, simulator, message_queue, unfinished_tasks,
                   put_log, worker_message, handed>>

\* the next report of the sorted list is there to be read
NextOfList(message_data) ==
    /\ main_pc = "simulate_transmission"
    /\ Len(messages) < MaxSent
    /\ IF messages = << >> THEN TRUE
       ELSE TimestampLeq(messages[Len(messages)].timestamp, message_data.timestamp)
    /\ messages' = Append(messages, message_data)

\* as Lose, with total_generated counted only for the reports that are sent
Lose_not_generated(message_data) ==
    /\ NextOfList(message_data)
    /\ simulator' = [simulator EXCEPT !.total_lost = @ + 1]
    /\ UNCHANGED <<yards, engineVars, twinVars, last_credit, calls, pct, band,
                   message_queue, unfinished_tasks, put_log,
                   processing_active, main_pc, worker_pc, worker_message,
                   handed>>

\* one turn of the loop of simulate_transmission in which the report is lost
Lose(message_data) ==
    /\ NextOfList(message_data)
    /\ simulator' = [simulator EXCEPT !.total_generated = @ + 1,
                                      !.total_lost = @ + 1]
    /\ UNCHANGED <<yards, engineVars, twinVars, last_credit, calls, pct, band,
                   message_queue, unfinished_tasks, put_log,
                   processing_active, main_pc, worker_pc, worker_message,
                   handed>>

\* as Transmit, but the sending thread hands the report to
\* _process_single_message itself instead of putting it on the queue
Transmit_inline(message_data, delayed, with_error) ==
    /\ NextOfList(message_data)
    /\ simulator' = [simulator EXCEPT
                       !.total_generated = @ + 1,
                       !.total_delayed = IF delayed THEN @ + 1 ELSE @,
                       !.total_with_errors = IF with_error THEN @ + 1 ELSE @]
    /\ \E processed_message \in
            IF with_error THEN add_coordinate_error(message_data)
            ELSE {message_data} :
          /\ ProcessSingleMessage(processed_message)
          /\ handed' = Append(handed, processed_message)
    /\ UNCHANGED <<twinVars, message_queue, unfinished_tasks, put_log,
                   processing_active, main_pc, worker_pc, worker_message>>

\* one turn of the loop of simulate_transmission in which the report is
\* sent: late or not, as it is or with wrong coordinates
Transmit(message_data, delayed, with_error) ==
    /\ NextOfList(message_data)
    /\ simulator' = [simulator EXCEPT
                       !.total_generated = @ + 1,
                       !.total_delayed = IF delayed THEN @ + 1 ELSE @,
                       !.total_with_errors = IF with_error THEN @ + 1 ELSE @]
    /\ \E processed_message \in
            IF with_error THEN add_coordinate_error(message_data)
            ELSE {message_data} :
          put(Some(processed_message))
    /\ UNCHANGED <<yards, engineVars, twinVars, last_credit, calls, pct, band,
                   processing_active, main_pc, worker_pc, worker_message,
                   handed>>

\* as EndOfTransmission, but None is put only behind a report that was sent
EndOfTransmission_after_report ==
    /\ main_pc = "simulate_transmission"
    /\ main_pc' = "join"
    /\ IF put_log = << >>
       THEN UNCHANGED <<message_queue, unfinished_tasks, put_log>>
       ELSE put(None)
    /\ UNCHANGED <<yards, engineVars, twinVars, last_credit, calls, pct, band,
                   messages, simulator, processing_active, worker_pc,
                   worker_message, handed>>

\* the list is at its end: simulate_transmission puts None and returns
EndOfTransmission ==
    /\ main_pc = "simulate_transmission"
    /\ main_pc' = "join"
    /\ put(None)
    /\ UNCHANGED <<yards, engineVars, twinVars, last_credit, calls, pct, band,
                   messages, simulator, processing_active, worker_pc,
                   worker_message, handed>>

\* as Join, but of a join() that does not wait for the unfinished tasks
Join_no_wait ==
    /\ main_pc = "join"
    /\ main_pc' = "joined"
    /\ UNCHANGED <<yards, engineVars, twinVars, last_credit, calls, pct, band,
                   messages, simulator, message_queue, unfinished_tasks,
                   put_log, processing_active, worker_pc, worker_message,
                   handed>>

\* message_queue.join() returns
Join ==
    /\ main_pc = "join"
    /\ unfinished_tasks = 0
    /\ main_pc' = "joined"
    /\ UNCHANGED <<yards, engineVars, twinVars, last_credit, calls, pct, band,
                   messages, simulator, message_queue, unfinished_tasks,
                   put_log, processing_active, worker_pc, worker_message,
                   handed>>

\* self.processing_active = False, and _process_messages_realtime returns
StopProcessing ==
    /\ main_pc = "joined"
    /\ main_pc' = "done"
    /\ processing_active' = FALSE
    /\ UNCHANGED <<yards, engineVars, twinVars, last_credit, calls, pct, band,
                   messages, simulator, message_queue, unfinished_tasks,
                   put_log, worker_pc, worker_message, handed>>

\* the worker tests "while self.processing_active"
WorkerWhile ==
    /\ worker_pc = "while"
    /\ worker_pc' = IF processing_active THEN "get" ELSE "exited"
    /\ UNCHANGED <<yards, engineVars, twinVars, last_credit, calls, pct, band,
                   messages, simulator, message_queue, unfinished_tasks,
                   put_log, processing_active, main_pc, worker_message,
                   handed>>

\* as WorkerGet, of a queue that hands out the newest item first
WorkerGet_lifo ==
    /\ worker_pc = "get"
    /\ message_queue # << >>
    /\ worker_message' = Some(message_queue[Len(message_queue)])
    /\ message_queue' = SubSeq(message_queue, 1, Len(message_queue) - 1)
    /\ worker_pc' = "got"
    /\ UNCHANGED <<yards, engineVars, twinVars, last_credit, calls, pct, band,
                   messages, simulator, unfinished_tasks, put_log,
                   processing_active, main_pc, handed>>

\* message_queue.get(timeout=1.0) returns the oldest item
WorkerGet ==
    /\ worker_pc = "get"
    /\ message_queue # << >>
    /\ worker_message' = Some(Head(message_queue))
    /\ message_queue' = Tail(message_queue)
    /\ worker_pc' = "got"
    /\ UNCHANGED <<yards, engineVars, twinVars, last_credit, calls, pct, band,
                   messages, simulator, unfinished_tasks, put_log,
                   processing_active, main_pc, handed>>

\* as WorkerTimeout, but the handler leaves the loop: "except: break"
WorkerTimeout_break ==
    /\ worker_pc = "get"
    /\ message_queue = << >>
    /\ worker_pc' = "exited"
    /\ UNCHANGED <<yards, engineVars, twinVars, last_credit, calls, pct, band,
                   messages, simulator, message_queue, unfinished_tasks,
                   put_log, processing_active, main_pc, worker_message,
                   handed>>

\* message_queue.get(timeout=1.0) raises queue.Empty; "except: continue"
WorkerTimeout ==
    /\ worker_pc = "get"
    /\ message_queue = << >>
    /\ worker_pc' = "while"
    /\ UNCHANGED <<yards, engineVars, twinVars, last_credit, calls, pct, band,
                   messages, simulator, message_queue, unfinished_tasks,
                   put_log, processing_active, main_pc, worker_message,
                   handed>>

\* as WorkerSentinel, but the worker leaves the loop without task_done()
WorkerSentinel_no_task_done ==
    /\ worker_pc = "got"
    /\ IsNone(worker_message[1])
    /\ worker_pc' = "exited"
    /\ UNCHANGED <<yards, engineVars, twinVars, last_credit, calls, pct, band,
                   messages, simulator, message_queue, unfinished_tasks,
                   put_log, processing_active, main_pc, worker_message, handed>>

\* the worker got None: task_done() and break
WorkerSentinel ==
    /\ worker_pc = "got"
    /\ IsNone(worker_message[1])
    /\ task_done
    /\ worker_pc' = "exited"
    /\ UNCHANGED <<yards, engineVars, twinVars, last_credit, calls, pct, band,
                   messages, simulator, message_queue, put_log,
                   processing_active, main_pc, worker_message, handed>>

\* the worker got a report: _process_single_message, and processed_messages
\* counts it if that returned True
WorkerProcess ==
    /\ worker_pc = "got"
    /\ ~IsNone(worker_message[1])
    /\ ProcessSingleMessage(worker_message[1][1])
    /\ handed' = Append(handed, worker_message[1][1])
    /\ worker_pc' = "task_done"
    /\ UNCHANGED <<twinVars, messages, simulator, message_queue,
                   unfinished_tasks, put_log, processing_active, main_pc,
                   worker_message>>

\* as WorkerTaskDone, but a report _process_single_message returned False
\* for is passed over without task_done()
WorkerTaskDone_if_processed ==
    /\ worker_pc = "task_done"
    /\ unfinished_tasks' = IF last_result.ok THEN unfinished_tasks - 1
                           ELSE unfinished_tasks
    /\ worker_pc' = "while"
    /\ UNCHANGED <<yards, engineVars, twinVars, last_credit, calls, pct, band,
                   messages, simulator, message_queue, put_log,
                   processing_active, main_pc, worker_message, handed>>

\* the worker calls task_done() for the report and goes round the loop
WorkerTaskDone ==
    /\ worker_pc = "task_done"
    /\ task_done
    /\ worker_pc' = "while"
    /\ UNCHANGED <<yards, engineVars, twinVars, last_credit, calls, pct, band,
                   messages, simulator, message_queue, put_log,
                   processing_active, main_pc, worker_message, handed>>

\* the thread that called _process_messages_realtime
MainThread ==
    \/ StartWorker
    \/ \E message_data \in RealtimeReports : Lose(message_data)
    \/ \E message_data \in RealtimeReports, delayed \in BOOLEAN,
          with_error \in BOOLEAN : Transmit(message_data, delayed, with_error)
    \/ EndOfTransmission
    \/ Join
    \/ StopProcessing

\* the thread that runs _message_processor_worker
WorkerThread ==
    \/ WorkerWhile
    \/ WorkerGet
    \/ WorkerTimeout
    \/ WorkerSentinel
    \/ WorkerProcess
    \/ WorkerTaskDone

NextRealtime == MainThread \/ WorkerThread

SpecRealtime == Init /\ [][NextRealtime]_vars

\* the places of the worker thread once it is started
WorkerPlaces == {"while", "get", "got", "task_done", "exited"}

\* a step of the worker thread, told by worker_pc alone: each action of
\* WorkerThread moves worker_pc to another of its places, no action of
\* MainThread moves it once the thread is started, and in each place but
\* "exited" one action of WorkerThread can be taken (get(timeout=1.0) either
\* returns an item or raises queue.Empty, so the thread never waits for good)
WorkerStep ==
    /\ worker_pc \in WorkerPlaces \ {"exited"}
    /\ worker_pc' \in WorkerPlaces \ {worker_pc}

\* the real-time run with both threads scheduled fairly: a thread that can
\* take a step is not left waiting for ever
SpecRealtimeFair ==
    /\ Init
    /\ [][NextRealtime]_vars
    /\ WF_vars(MainThread)
    /\ WF_worker_pc(WorkerStep)

\* ------------------- two batch runs over lists that differ in coordinates

\* the second run handles the next report of the list, as it is or with the
\* coordinates _add_coordinate_error can give it
SecondRunOtherCoordinates ==
    /\ run = 2
    /\ consumed < Len(batch)
    /\ \E message_data \in {batch[consumed + 1]}
                             \cup add_coordinate_error(batch[consumed + 1]) :
          ProcessSingleMessage(message_data)
    /\ UNCHANGED <<twinVars, realtimeVars>>

NextCoordinates ==
    \/ \E message_data \in BatchReports : FirstRun(message_data)
    \/ Restart
    \/ SecondRunOtherCoordinates

SpecCoordinates == Init /\ [][NextCoordinates]_vars

\* ------------------------------------------------------------- claims

\* The band the quantization rule of the specification gives for the
\* percentage n / d (d > 0): the highest boundary the percentage reaches.
RuleBand(n, d) ==
    IF n >= 100 * d THEN 100
    ELSE IF n >= 80 * d THEN 80
    ELSE IF n >= 60 * d THEN 60
    ELSE IF n >= 40 * d THEN 40
    ELSE IF n >= 20 * d THEN 20
    ELSE 0

\* C1: for every yard, over every sequence of add_work_time calls,
\* cleaned_area never decreases from one call to the next and
\* 0 <= cleaned_area <= area in every reachable state.
C1_CleanedAreaMonotoneBounded ==
    /\ [](\A y \in YardIds :
            0 <= yards[y].cleaned_area /\ yards[y].cleaned_area <= yards[y].area)
    /\ [][\A y \in YardIds : yards'[y].cleaned_area >= yards[y].cleaned_area]_vars

\* a yard whose credited work exceeds its area: the clamp has acted
C1_Witness ==
    /\ yards[1].cleaned_area = yards[1].area
    /\ yards[1].total_work_time * yards[1].cleaning_speed > yards[1].area

\* C2: in the initial state and after every processed report the stored
\* status of every yard is the band the quantization rule gives for
\* min(cleaned_area / area * 100, 100), and validate_yard_consistency
\* reports nothing.
C2_StatusMatchesQuantization ==
    /\ \A y \in YardIds :
         yards[y].status =
            IF yards[y].cleaned_area >= yards[y].area THEN 100
            ELSE RuleBand(100 * yards[y].cleaned_area, yards[y].area)
    /\ validate_yard_consistency(yards) = {}

\* a yard credited up to exactly a band boundary (20 %) by a report
C2_Witness ==
    /\ 100 * yards[2].cleaned_area = 20 * yards[2].area
    /\ yards[2].status = 20
    /\ ~IsNone(last_credit) /\ last_credit[1].yard_id = 2

StrictlyIncreasing(seq) ==
    \A i \in 1 .. (Len(seq) - 1) : seq[i] < seq[i + 1]

\* C3: status_history of every yard starts with band 0, is strictly
\* increasing, ends with the current status, and grows by exactly one entry
\* with each add_work_time call that returns a new band (and with no other
\* call), starting from length one.
C3_StatusHistoryShape ==
    /\ \A y \in YardIds : Len(yards[y].status_history) = 1
    /\ [](\A y \in YardIds :
            /\ yards[y].status_history[1] = 0
            /\ StrictlyIncreasing(yards[y].status_history)
            /\ yards[y].status_history[Len(yards[y].status_history)] = yards[y].status)
    /\ [][\A y \in YardIds :
            Len(yards'[y].status_history) =
               Len(yards[y].status_history)
               + (IF /\ ~IsNone(last_credit')
                     /\ last_credit'[1].yard_id = y
                     /\ ~IsNone(last_credit'[1].result)
                  THEN 1 ELSE 0)]_vars

\* a yard that two calls moved to a new band, then credited without a change
C3_Witness ==
    /\ Len(yards[2].status_history) = 3
    /\ ~IsNone(last_credit)
    /\ last_credit[1].yard_id = 2
    /\ last_credit[1].work_time > 0
    /\ IsNone(last_credit[1].result)

\* the events a step appended to status_changes
NewEvents == { status_changes'[i] : i \in (Len(status_changes) + 1) .. Len(status_changes') }

\* C4: no processed report moves a yard to a lower band; a yard with status
\* 100 has cleaned_area = area, and a report processed after that leaves its
\* cleaned_area and status as they are, gets None from add_work_time on it
\* and appends no event for it.
C4_ForwardOnlyAbsorbing ==
    /\ [](\A y \in YardIds : yards[y].status = 100 => yards[y].cleaned_area = yards[y].area)
    /\ [][\A y \in YardIds :
            /\ yards'[y].status >= yards[y].status
            /\ yards[y].status = 100 =>
                 /\ yards'[y].cleaned_area = yards[y].area
                 /\ yards'[y].status = 100
                 /\ yards'[y].status_history = yards[y].status_history
                 /\ (~IsNone(last_credit') /\ last_credit'[1].yard_id = y)
                        => IsNone(last_credit'[1].result)
                 /\ \A e \in NewEvents : e.yard_id # y]_vars

\* a yard at 100 that a later report credited again: add_work_time returned
\* None, so the status was 100 before that call
C4_Witness ==
    /\ yards[1].status = 100
    /\ ~IsNone(last_credit)
    /\ last_credit[1].yard_id = 1
    /\ last_credit[1].work_time > 0
    /\ IsNone(last_credit[1].result)
    /\ yards[1].total_work_time > yards[1].area

\* the machine a report finds: the stored one, or the one created for it
Before(message_data) ==
    IF message_data.machine_id \in DOMAIN machines
    THEN machines[message_data.machine_id]
    ELSE Machine__init__(message_data.machine_id)

\* the report is handled without an exception: its timestamp parses and can
\* be subtracted from the machine's last_update (wherever that is done)
Handled(message_data) ==
    /\ message_data.timestamp.parses
    /\ error_count' = error_count

\* the dwell-time rule of the specification for a report of a machine
RuleCredit(machine, message_data) ==
    IF IsNone(machine.last_update) THEN 0
    ELSE LET delta == message_data.timestamp.sec - machine.last_update[1].sec
         IN  IF delta < 0 \/ delta > 3600 THEN 0 ELSE delta

\* seconds of dwell a machine has on record for a yard
Dwell(machine, yard_id) ==
    IF yard_id \in DOMAIN machine.yard_work_history
    THEN machine.yard_work_history[yard_id] ELSE 0

\* C5: the dwell credited by a report of a machine that was in a yard is 0
\* when last_update is absent, delta < 0 or delta > 3600 and delta when
\* 0 <= delta <= 3600 (a gap of exactly 3600 s is credited in full); the
\* machine's record and the yard get exactly that credit; a first report
\* credits nothing; two instants 5000 s apart give 0.
C5_DwellRule ==
    /\ [](calculate_work_time(Some(Datetime(0, FALSE)),
                              Some(Datetime(5000, FALSE))).seconds = 0)
    /\ [][(~IsNone(last_message') /\ Handled(last_message'[1])) =>
              LET message_data == last_message'[1]
                  before == Before(message_data)
                  after == machines'[message_data.machine_id]
                  credit == RuleCredit(before, message_data)
              IN  /\ IsNone(before.last_update) =>
                        /\ last_changes'[1].work_time_added = 0
                        /\ yards' = yards
                  /\ ~IsNone(before.current_yard_id) =>
                       LET y == before.current_yard_id[1]
                       IN  /\ last_changes'[1].work_time_added = credit
                           /\ Dwell(after, y) = Dwell(before, y) + credit
                           /\ y \in YardIds =>
                                yards'[y].total_work_time
                                   = yards[y].total_work_time + credit]_vars

\* two reports of a machine in one yard 3720 s apart: nothing credited
C5_Witness ==
    /\ consumed = 2
    /\ DOMAIN machines = {1}
    /\ machines[1].current_yard_id = Some(1)
    /\ machines[1].yard_entry_time = Some(Datetime(0, FALSE))
    /\ machines[1].last_update = Some(Datetime(3720, FALSE))
    /\ last_changes = Some([NoChanges EXCEPT !.position_changed = TRUE])
    /\ yards[1].total_work_time = 0
    /\ Dwell(machines[1], 1) = 0

\* the state after machine 1 entered yard 1 (area 100, rate 1) at t = 0 as
\* the first report of the run
EntryState ==
    /\ consumed = 1
    /\ DOMAIN machines = {1}
    /\ machines[1].current_yard_id = Some(1)
    /\ machines[1].last_update = Some(Datetime(0, FALSE))

Event(yard_id, old_status, new_status, sec, machine_id, work_time) ==
    [ yard_id |-> yard_id, old_status |-> old_status, new_status |-> new_status,
      timestamp |-> Datetime(sec, FALSE), machine_id |-> machine_id,
      work_time_added |-> work_time ]

\* C7: a report that keeps a machine in the known yard it was in, with
\* 0 < delta <= 3600, credits exactly delta seconds to that yard and to the
\* machine's record for it; entry at t = 0 and a same-yard report at t = 50
\* give cleaned_area 50, band 40 and the single event {0 -> 40}, returned by
\* the second report and not by the first.
C7_SameYardCredit ==
    /\ [](EntryState =>
            /\ status_changes = << >>
            /\ IsNone(last_result.status_change)
            /\ yards[1].cleaned_area = 0)
    /\ [][(~IsNone(last_message') /\ Handled(last_message'[1])) =>
              LET message_data == last_message'[1]
                  before == Before(message_data)
                  after == machines'[message_data.machine_id]
                  delta == message_data.timestamp.sec - before.last_update[1].sec
              IN  ( /\ ~IsNone(before.current_yard_id)
                    /\ before.current_yard_id = message_data.yard_id
                    /\ before.current_yard_id[1] \in YardIds
                    /\ 0 < delta /\ delta <= 3600 ) =>
                      LET y == before.current_yard_id[1]
                          sum == yards[y].cleaned_area + delta * yards[y].cleaning_speed
                      IN  /\ yards'[y].total_work_time = yards[y].total_work_time + delta
                          /\ yards'[y].cleaned_area =
                                IF sum > yards[y].area THEN yards[y].area ELSE sum
                          /\ Dwell(after, y) = Dwell(before, y) + delta
                          /\ last_changes'[1].work_time_added = delta]_vars
    /\ [][(EntryState
           /\ last_message' = Some(Report(1, TimestampString(50, FALSE), Some(1)))) =>
              /\ yards'[1].cleaned_area = 50
              /\ yards'[1].status = 40
              /\ last_result'.status_change = Some(Event(1, 0, 40, 50, 1, 50))
              /\ status_changes' = <<Event(1, 0, 40, 50, 1, 50)>>]_vars

\* the worked example: entry at 0, same-yard report at 50
C7_Witness ==
    /\ consumed = 2
    /\ DOMAIN machines = {1}
    /\ machines[1].current_yard_id = Some(1)
    /\ machines[1].yard_entry_time = Some(Datetime(0, FALSE))
    /\ machines[1].last_update = Some(Datetime(50, FALSE))
    /\ yards[1].cleaned_area = 50
    /\ status_changes = <<Event(1, 0, 40, 50, 1, 50)>>
    /\ last_result.status_change = Some(Event(1, 0, 40, 50, 1, 50))

\* C8: a report that names another yard (or none) than the one the machine
\* is in makes previous_yard_id the old current_yard_id and current_yard_id
\* the report's yard, credits the elapsed time (by the dwell-time rule) to
\* the yard left and nothing to the yard entered; entry at t = 0 and a leave
\* report at t = 120 give cleaned_area 100 (clamped), band 100, and the event
\* comes with the leave report.
C8_OutgoingYardCredit ==
    /\ [](EntryState => (status_changes = << >> /\ yards[1].status = 0))
    /\ [][(~IsNone(last_message') /\ Handled(last_message'[1])) =>
              LET message_data == last_message'[1]
                  before == Before(message_data)
                  after == machines'[message_data.machine_id]
                  credit == RuleCredit(before, message_data)
              IN  before.current_yard_id # message_data.yard_id =>
                    /\ after.previous_yard_id = before.current_yard_id
                    /\ after.current_yard_id = message_data.yard_id
                    /\ ~IsNone(before.current_yard_id) =>
                         LET y == before.current_yard_id[1]
                         IN  /\ Dwell(after, y) = Dwell(before, y) + credit
                             /\ y \in YardIds =>
                                  yards'[y].total_work_time
                                     = yards[y].total_work_time + credit
                    /\ ~IsNone(message_data.yard_id) =>
                         LET n == message_data.yard_id[1]
                         IN  /\ Dwell(after, n) = Dwell(before, n)
                             /\ n \in YardIds => yards'[n] = yards[n]
                    /\ \A e \in NewEvents : Some(e.yard_id) = before.current_yard_id]_vars
    /\ [][(EntryState
           /\ last_message' = Some(Report(1, TimestampString(120, FALSE), None))) =>
              /\ yards'[1].cleaned_area = 100
              /\ yards'[1].total_work_time = 120
              /\ yards'[1].status = 100
              /\ last_result'.status_change = Some(Event(1, 0, 100, 120, 1, 120))
              /\ status_changes' = <<Event(1, 0, 100, 120, 1, 120)>>]_vars

\* a machine that moved from yard 1 straight into yard 2: yard 1 got the
\* elapsed 50 s, yard 2 nothing
C8_Witness ==
    /\ consumed = 2
    /\ DOMAIN machines = {1}
    /\ machines[1].previous_yard_id = Some(1)
    /\ machines[1].current_yard_id = Some(2)
    /\ machines[1].last_update = Some(Datetime(50, FALSE))
    /\ yards[1].total_work_time = 50
    /\ yards[2].total_work_time = 0
    /\ status_changes = <<Event(1, 0, 40, 50, 1, 50)>>

\* C9: a processed report returns an event exactly when a yard's band
\* changed while it was processed, at most one yard's band changes, the
\* event is for that yard and is the one entry appended to status_changes; a
\* report that changes no band returns None and appends nothing.
C9_EventIffBandChange ==
    [][LET changed == { y \in YardIds : yards'[y].status # yards[y].status }
       IN  /\ Cardinality(changed) <= 1
           /\ (changed # {}) <=> ~IsNone(last_result'.status_change)
           /\ IsNone(last_result'.status_change) => status_changes' = status_changes
           /\ ~IsNone(last_result'.status_change) =>
                /\ status_changes' = Append(status_changes, last_result'.status_change[1])
                /\ last_result'.status_change[1].yard_id \in changed]_vars

\* a report that left yard 2 on a band boundary and returned the event for it
C9_Witness ==
    /\ ~IsNone(last_result.status_change)
    /\ last_result.status_change[1].yard_id = 2
    /\ last_result.status_change[1].new_status = 20
    /\ last_changes[1].left_yard = Some(2)
    /\ Len(status_changes) = 1

\* C6: get_status_by_percentage gives 100 for p >= 100, else 80 for p >= 80,
\* else 60 for p >= 60, else 40 for p >= 40, else 20 for p >= 20, else 0; a
\* percentage on a boundary gets the higher band (79 -> 60, 80 -> 80,
\* 100 -> 100).
C6_QuantizationRule ==
    /\ ~IsNone(band) => band[1] = RuleBand(pct.num, pct.den)
    /\ (~IsNone(band) /\ pct.num = 79 * pct.den) => band[1] = 60
    /\ (~IsNone(band) /\ pct.num = 80 * pct.den) => band[1] = 80
    /\ (~IsNone(band) /\ pct.num = 100 * pct.den) => band[1] = 100

\* the rule applied to exactly 80 %
C6_Witness == pct.num = 80 * pct.den /\ band = Some(80)

SameButCoordinates(a, b) ==
    /\ a.machine_id = b.machine_id
    /\ a.timestamp = b.timestamp
    /\ a.yard_id = b.yard_id

\* s can be had from t by leaving reports out, the coordinates aside
RECURSIVE IsSubsequence(_, _)
IsSubsequence(s, t) ==
    IF s = << >> THEN TRUE
    ELSE IF t = << >> THEN FALSE
    ELSE IF SameButCoordinates(s[1], t[1]) THEN IsSubsequence(Tail(s), Tail(t))
    ELSE IsSubsequence(s, Tail(t))

\* C11: in real-time mode the reports the worker hands to the update engine
\* are, in this order, reports of the list the transmission was given, with
\* some left out and none repeated or out of place; and as that list is
\* sorted, no report the engine is handed is older than the last_update of
\* its machine (a report whose timestamp string is no date has no instant and
\* never gets as far as the engine).
C11_HandedInOrder ==
    [][ /\ IsSubsequence(handed', messages')
        /\ Len(handed') <= simulator'.total_generated - simulator'.total_lost
        /\ handed' # handed =>
             LET message_data == handed'[Len(handed')]
                 id == message_data.machine_id
             IN  (/\ message_data.timestamp.parses
                  /\ id \in DOMAIN machines
                  /\ ~IsNone(machines[id].last_update))
                   => machines[id].last_update[1].sec <= message_data.timestamp.sec
      ]_vars

\* two reports of one machine went through the queue one after the other,
\* the first with coordinates the transmission got wrong
C11_Witness ==
    /\ Len(handed) = 2
    /\ handed[1].machine_id = handed[2].machine_id
    /\ handed[1].timestamp.sec < handed[2].timestamp.sec
    /\ handed[1] # messages[1]
    /\ handed[2] = messages[2]

\* the places of the None items among the items put so far
SentinelsPut == { i \in 1..Len(put_log) : IsNone(put_log[i]) }

\* C12: whatever the list, and however many of its reports are lost, the
\* transmission puts None exactly once, as the last item it puts: none while
\* the loop over the list runs, and one at the end of put_log from then on.
C12_OneSentinelLast ==
    IF main_pc \in {"process_messages_realtime", "simulate_transmission"}
    THEN SentinelsPut = {}
    ELSE SentinelsPut = {Len(put_log)} /\ put_log # << >>

\* a list of two reports, both lost: None is all that was ever put
C12_Witness ==
    /\ main_pc = "done"
    /\ Len(messages) = 2
    /\ simulator.total_lost = 2
    /\ put_log = <<None>>

\* the reports among the items put so far, in the order they were put
ReportsPut ==
    LET reports == SelectSeq(put_log, LAMBDA item : ~IsNone(item))
    IN  [ i \in 1..Len(reports) |-> reports[i][1] ]

\* C13: the worker leaves its loop only once it has taken None from the
\* queue: when it has left, the last item it took is None, the transmission
\* is over, the queue is empty and every report that was put has been
\* handed to _process_single_message.  Neither the processing_active flag
\* nor a timeout of get ends the loop earlier.
C13_WorkerExitsAfterSentinel ==
    worker_pc = "exited" =>
        /\ worker_message = Some(None)
        /\ main_pc \in {"join", "joined", "done"}
        /\ message_queue = << >>
        /\ handed = ReportsPut

\* the worker has left its loop after two reports and None
C13_Witness ==
    /\ worker_pc = "exited"
    /\ Len(handed) = 2
    /\ main_pc = "join"

\* C14: once message_queue.join() has returned, every report that was put
\* has been handed to _process_single_message and its turn of the worker's
\* loop is over (no task is unfinished, the worker has left the loop), and
\* from then on no step changes the machine store, the yard store, the list
\* of status changes or the count of processed messages.
C14_JoinMeansDone ==
    [][ main_pc' \in {"joined", "done"} =>
          /\ handed' = ReportsPut'
          /\ unfinished_tasks' = 0
          /\ worker_pc' = "exited"
          /\ main_pc \in {"joined", "done"} =>
                UNCHANGED <<machines, yards, status_changes, processed_count>>
      ]_vars

\* join() has returned after the worker processed two reports, one of which
\* credited a yard
C14_Witness ==
    /\ main_pc = "joined"
    /\ processed_count = 2
    /\ yards[1].total_work_time > 0

\* the machine store, the yard store, the list of status changes and the
\* counters kept with them
domainState == <<machines, yards, status_changes, message_count, error_count,
                 processed_count>>

\* what the thread of _process_messages_realtime writes: its place, the
\* list it walks, the simulator's counters, what it puts on the queue, and
\* the processing_active flag
mainThreadState == <<main_pc, messages, simulator, put_log, processing_active>>

\* C15: in real-time mode a step that writes the machine store, the yard
\* store or the list of status changes is the worker's handling of the
\* report it took from the queue, and a step of the sending thread (one
\* that moves it on, reads the list, counts or puts) leaves all of them, and
\* the engine's counters, as they were.
C15_OnlyWorkerWritesStores ==
    [][ /\ domainState' # domainState =>
             /\ worker_pc = "got" /\ worker_pc' = "task_done"
             /\ handed' = Append(handed, worker_message[1][1])
             /\ UNCHANGED <<mainThreadState, message_queue, unfinished_tasks>>
        /\ mainThreadState' # mainThreadState => UNCHANGED domainState
      ]_vars

\* the worker has written the machine store while the sending thread is
\* still in its loop with one more report put on the queue
C15_Witness ==
    /\ main_pc = "simulate_transmission"
    /\ Len(messages) = 2
    /\ Len(message_queue) = 1
    /\ DOMAIN machines = {1}
    /\ simulator.total_generated = 2

\* ------------------------------------------------- faults and unknown yards

\* a step in which _process_single_message handled a report
ReportHandled == consumed' = consumed + 1

\* an exception was raised while the report of the step was handled: in
\* _process_single_message before the engine was called, or in the engine
FaultRaised == ReportHandled /\ IsNone(last_changes')

\* C16: an exception raised while a report is processed is caught, adds
\* exactly one to the engine's error counter, and gives no status change for
\* that report; a report handled after it is processed as any other; and
\* always _error_count <= _message_count, with successful_messages their
\* difference.
C16_FaultCaughtAndCounted ==
    [][ /\ FaultRaised =>
             /\ error_count' = error_count + 1
             /\ status_changes' = status_changes
             /\ IsNone(last_result'.status_change)
        /\ (ReportHandled /\ ~FaultRaised) =>
             /\ message_count' = message_count + 1
             /\ error_count' = error_count
             /\ last_result'.ok
        /\ error_count' <= message_count'
        /\ LET statistics == get_processing_statistics(message_count', error_count')
           IN  /\ statistics.successful_messages = message_count' - error_count'
               /\ statistics.successful_messages >= 0
      ]_vars

\* the same, for the exceptions raised inside process_machine_update only
C16_EngineFaultCounted ==
    [][ /\ (FaultRaised /\ last_result'.ok) =>
             /\ error_count' = error_count + 1
             /\ message_count' = message_count + 1
             /\ status_changes' = status_changes
             /\ IsNone(last_result'.status_change)
        /\ (FaultRaised /\ ~last_result'.ok) =>
             /\ UNCHANGED <<error_count, message_count, status_changes,
                            machines, yards, processed_count>>
             /\ ~last_message'[1].timestamp.parses
        /\ (ReportHandled /\ ~FaultRaised) =>
             /\ message_count' = message_count + 1
             /\ error_count' = error_count
             /\ last_result'.ok
        /\ error_count' <= message_count'
      ]_vars

\* the yard the report or the machine names is none of the directory
Unknown(yard_id) == ~IsNone(yard_id) /\ yard_id[1] \notin YardIds

C18_EntryTimeIffInYard ==
    /\ \A id \in MachineIds :
          IsNone(Machine__init__(id).yard_entry_time)
             <=> IsNone(Machine__init__(id).current_yard_id)
    /\ \A id \in DOMAIN machines :
          IsNone(machines[id].yard_entry_time) <=> IsNone(machines[id].current_yard_id)

\* machine 1 entered yard 1 and left it for no yard, and one of its reports
\* raised in the middle of update_position
C18_Witness ==
    /\ consumed = 3
    /\ error_count = 1
    /\ DOMAIN machines = {1}
    /\ machines[1].previous_yard_id = Some(1)
    /\ IsNone(machines[1].current_yard_id)
    /\ IsNone(machines[1].yard_entry_time)

\* the yard ids a report can name
NamedYards == { r.yard_id[1] : r \in { q \in Reports : ~IsNone(q.yard_id) } }

\* C19: whatever reports are applied, in order or not, an hour apart or
\* more, no entry of a machine's yard_work_history is ever negative or ever
\* gets smaller (a yard without an entry counting as 0), and no yard's
\* total_work_time ever gets smaller.
C19_DwellNeverDecreases ==
    [][ /\ DOMAIN machines \subseteq DOMAIN machines'
        /\ \A id \in DOMAIN machines' :
             /\ DOMAIN machines'[id].yard_work_history \subseteq NamedYards
             /\ \A y \in NamedYards :
                  /\ Dwell(machines'[id], y) >= 0
                  /\ id \in DOMAIN machines =>
                        Dwell(machines'[id], y) >= Dwell(machines[id], y)
        /\ \A y \in YardIds :
             /\ yards'[y].total_work_time >= yards[y].total_work_time
             /\ yards[y].total_work_time >= 0
      ]_vars

\* machine 1 worked 70 s in yard 1, and then a report of it with an older
\* timestamp was applied: the 70 s stand
C19_Witness ==
    /\ consumed = 3
    /\ DOMAIN machines = {1}
    /\ Dwell(machines[1], 1) = 70
    /\ yards[1].total_work_time = 70
    /\ machines[1].last_update = Some(Datetime(0, FALSE))
    /\ machines[1].current_yard_id = Some(1)

\* the real-time run is over: join() has returned, the flag is cleared, the
\* worker has left its loop, and every report put was processed
RealtimeRunOver ==
    /\ main_pc = "done"
    /\ ~processing_active
    /\ worker_pc = "exited"
    /\ SentinelsPut # {}
    /\ message_queue = << >>
    /\ unfinished_tasks = 0
    /\ handed = ReportsPut

\* C20: with both threads scheduled fairly, a real-time run over a finite
\* list ends: None is put, every report put is processed, join() returns;
\* and a timeout of get takes nothing from the queue, ends no task, and
\* sends the worker, with processing_active still set, round the loop to
\* get again.
C20_RealtimeTerminates ==
    /\ <>[]RealtimeRunOver
    /\ [][ (worker_pc = "get" /\ worker_pc' = "while") =>
              /\ processing_active'
              /\ UNCHANGED <<message_queue, unfinished_tasks, put_log, handed,
                             domainState, main_pc>>
         ]_vars

\* a run over two reports, one lost and one processed, has ended
C20_Witness ==
    /\ RealtimeRunOver
    /\ simulator.total_generated = 2
    /\ simulator.total_lost = 1
    /\ processed_count = 1

\* ------------------------------------------- frame and descriptor claims

\* C21: a call of add_work_time with work_time <= 0 returns None and leaves
\* the yard's total_work_time, cleaned_area, status and status_history (and
\* every other yard) as they were.
C21_NonPositiveCreditNoOp ==
    [][ (calls' = calls + 1 /\ last_credit'[1].work_time <= 0) =>
          /\ IsNone(last_credit'[1].result)
          /\ \A y \in YardIds :
               /\ yards'[y].total_work_time = yards[y].total_work_time
               /\ yards'[y].cleaned_area = yards[y].cleaned_area
               /\ yards'[y].status = yards[y].status
               /\ yards'[y].status_history = yards[y].status_history
          /\ yards' = yards
      ]_vars

\* yard 1 was credited 50 s and moved to a new band, and was then handed
\* -5 s
C21_Witness ==
    /\ calls = 2
    /\ ~IsNone(last_credit)
    /\ last_credit[1].yard_id = 1
    /\ last_credit[1].work_time = -5
    /\ yards[1].total_work_time = 50
    /\ yards[1].status = 40

\* update_position was called for the report of the step: the report's
\* timestamp parsed, so the MachineMessage was built
PositionUpdated == ReportHandled /\ last_message'[1].timestamp.parses

\* C22: after update_position is applied to a report, whatever dwell it
\* credited and whether or not its timestamp is older than last_update, the
\* machine's current_coordinates are the report's coordinates and its
\* last_update is the report's timestamp.
C22_PositionAndLastUpdateOverwritten ==
    [][ PositionUpdated =>
          LET message_data == last_message'[1]
              id == message_data.machine_id
          IN  /\ id \in DOMAIN machines'
              /\ machines'[id].current_coordinates = message_data.coordinates
              /\ machines'[id].last_update =
                    Some(fromisoformat(message_data.timestamp))
      ]_vars

\* the same, for the calls of update_position that return: a call that
\* raises has set the coordinates and left last_update as it was
C22_OverwrittenUnlessRaised ==
    [][ PositionUpdated =>
          LET message_data == last_message'[1]
              id == message_data.machine_id
          IN  /\ id \in DOMAIN machines'
              /\ machines'[id].current_coordinates = message_data.coordinates
              /\ IF error_count' = error_count
                 THEN machines'[id].last_update =
                         Some(fromisoformat(message_data.timestamp))
                 ELSE /\ machines'[id].last_update = machines[id].last_update
                      /\ machines[id].last_update[1].aware
                            # message_data.timestamp.aware
      ]_vars

\* update_position returned a descriptor for the report of the step, and the
\* report names another yard (or none) than the machine was in
MembershipChanged ==
    /\ PositionUpdated
    /\ ~IsNone(last_changes')
    /\ Before(last_message'[1]).current_yard_id # last_message'[1].yard_id

\* C23: when a report changes the yard a machine is in, the descriptor
\* update_position returns has yard_changed set, names as entered_yard the
\* yard of the report (None if it names none) and as left_yard the yard the
\* machine was in (None if it was in none), whatever work time was credited:
\* a leave with no work time credited is named too.
C23_DescriptorNamesEnteredAndLeft ==
    [][ MembershipChanged =>
          LET message_data == last_message'[1]
              changes == last_changes'[1]
          IN  /\ changes.yard_changed
              /\ changes.entered_yard = message_data.yard_id
              /\ changes.left_yard = Before(message_data).current_yard_id
      ]_vars

\* what the descriptor does name: the yard entered always, the yard left
\* only together with a positive work_time_added
C23_LeftNamedOnlyWithCredit ==
    [][ MembershipChanged =>
          LET message_data == last_message'[1]
              changes == last_changes'[1]
          IN  /\ changes.yard_changed
              /\ changes.entered_yard = message_data.yard_id
              /\ changes.left_yard =
                    IF changes.work_time_added > 0
                    THEN Before(message_data).current_yard_id ELSE None
              /\ changes.work_time_added =
                    IF IsNone(Before(message_data).current_yard_id) THEN 0
                    ELSE RuleCredit(Before(message_data), message_data)
      ]_vars

\* C24: a report by which a machine enters a yard, be it the machine's
\* first report, an entry from outside or a move from another yard, leaves
\* the yard entered exactly as it was; of all yards only the one the machine
\* left can change with such a report, and only when work time was credited.
C24_EntryCreditsNothing ==
    [][ ( /\ PositionUpdated
          /\ Before(last_message'[1]).current_yard_id # last_message'[1].yard_id )
        => LET message_data == last_message'[1]
               before == Before(message_data)
           IN  \A y \in YardIds :
                 /\ message_data.yard_id = Some(y) => yards'[y] = yards[y]
                 /\ yards'[y] # yards[y] =>
                       /\ before.current_yard_id = Some(y)
                       /\ ~IsNone(last_changes')
                       /\ last_changes'[1].work_time_added > 0
                       /\ last_changes'[1].work_time_added
                             = RuleCredit(before, message_data)
      ]_vars

\* machine 1 moved from yard 1 straight to yard 2 after 50 s: yard 1 has the
\* 50 s, yard 2 is as loaded
C24_Witness ==
    /\ consumed = 2
    /\ DOMAIN machines = {1}
    /\ machines[1].previous_yard_id = Some(1)
    /\ machines[1].current_yard_id = Some(2)
    /\ yards[1].total_work_time = 50
    /\ yards[2] = load_yard_directory[2]

\* C25: a report that names no yard, of a machine that was in no yard,
\* credits nothing: it raises nothing, its descriptor has no yard change and
\* no work time, the machine changes in current_coordinates and last_update
\* only (its yard_work_history stays), no other machine changes, and the
\* yards and the list of status changes stay as they were.
C25_OutsideStaysOutside ==
    [][ ( /\ PositionUpdated
          /\ IsNone(Before(last_message'[1]).current_yard_id)
          /\ IsNone(last_message'[1].yard_id) )
        => LET message_data == last_message'[1]
               id == message_data.machine_id
               before == Before(message_data)
           IN  /\ error_count' = error_count
               /\ ~IsNone(last_changes')
               /\ ~last_changes'[1].yard_changed
               /\ last_changes'[1].work_time_added = 0
               /\ machines'[id] =
                     [before EXCEPT
                        !.current_coordinates = message_data.coordinates,
                        !.last_update = Some(fromisoformat(message_data.timestamp))]
               /\ \A other \in DOMAIN machines \ {id} :
                     machines'[other] = machines[other]
               /\ yards' = yards
               /\ status_changes' = status_changes
      ]_vars

\* machine 1 worked 50 s in yard 1, left it, and then reported once more
\* from outside all yards
C25_Witness ==
    /\ consumed = 3
    /\ DOMAIN machines = {1}
    /\ machines[1].previous_yard_id = Some(1)
    /\ IsNone(machines[1].current_yard_id)
    /\ machines[1].last_update = Some(Datetime(120, FALSE))
    /\ Dwell(machines[1], 1) = 50
    /\ ~IsNone(last_changes)
    /\ ~last_changes[1].yard_changed

\* C26: the status change returned for a report names the one yard whose
\* status the report changed, with old_status the status of that yard before
\* the report and new_status its status after it, old_status < new_status;
\* its timestamp is the report's, its machine_id the report's, and its
\* work_time_added the work time the report credited.
C26_EventFields ==
    [][ (ReportHandled /\ ~IsNone(last_result'.status_change)) =>
          LET message_data == last_message'[1]
              e == last_result'.status_change[1]
          IN  /\ e.yard_id \in YardIds
              /\ \A y \in YardIds : yards'[y].status # yards[y].status <=> y = e.yard_id
              /\ e.old_status = yards[e.yard_id].status
              /\ e.new_status = yards'[e.yard_id].status
              /\ e.old_status < e.new_status
              /\ e.timestamp = fromisoformat(message_data.timestamp)
              /\ e.machine_id = message_data.machine_id
              /\ ~IsNone(last_changes')
              /\ e.work_time_added = last_changes'[1].work_time_added
              /\ e.work_time_added = RuleCredit(Before(message_data), message_data)
              /\ e.work_time_added
                    = yards'[e.yard_id].total_work_time - yards[e.yard_id].total_work_time
              /\ status_changes' = Append(status_changes, e)
      ]_vars

\* machine 2 worked in yard 1 from 50 s to 120 s: one status change, of yard
\* 1 from 0 to 60 at 120 s by machine 2 with 70 s
C26_Witness ==
    /\ consumed = 2
    /\ status_changes = <<Event(1, 0, 60, 120, 2, 70)>>
    /\ last_result.status_change = Some(Event(1, 0, 60, 120, 2, 70))
    /\ yards[1].status = 60

\* C27: a machine is put into the machine store exactly by the first report
\* of its id that is processed (a report whose timestamp does not parse is
\* not processed and creates nothing), as Machine.__init__ makes it: in no
\* yard, with no last_update and an empty yard_work_history; so the ids in
\* the store are always the ids of the reports processed so far; and that
\* first report, whatever yard it names, credits no work time to the
\* machine or to any yard.
C27_MachineCreatedByFirstReport ==
    /\ [](\A id \in MachineIds :
            /\ IsNone(Machine__init__(id).current_yard_id)
            /\ IsNone(Machine__init__(id).last_update)
            /\ IsNone(Machine__init__(id).yard_entry_time)
            /\ Machine__init__(id).yard_work_history = << >>
            /\ Machine__init__(id).current_coordinates = <<0, 0>>)
    /\ [](consumed = 0 => DOMAIN machines = {})
    /\ [][ ReportHandled =>
             LET message_data == last_message'[1]
                 id == message_data.machine_id
             IN  /\ DOMAIN machines' =
                       DOMAIN machines \cup (IF last_result'.ok THEN {id} ELSE {})
                 /\ ~last_result'.ok => processed_count' = processed_count
                 /\ last_result'.ok => processed_count' = processed_count + 1
                 /\ (last_result'.ok /\ id \notin DOMAIN machines) =>
                       /\ machines'[id] =
                             [Machine__init__(id) EXCEPT
                                !.current_coordinates = message_data.coordinates,
                                !.last_update =
                                    Some(fromisoformat(message_data.timestamp)),
                                !.current_yard_id = message_data.yard_id,
                                !.yard_entry_time =
                                    IF IsNone(message_data.yard_id) THEN None
                                    ELSE Some(fromisoformat(message_data.timestamp))]
                       /\ last_changes'[1].work_time_added = 0
                       /\ yards' = yards
                       /\ status_changes' = status_changes
                       /\ error_count' = error_count
         ]_vars

\* machine 1 has worked 50 s in yard 1 when the first report of machine 2
\* arrives, from yard 2 at 3720 s
C27_Witness ==
    /\ consumed = 3
    /\ DOMAIN machines = {1, 2}
    /\ Dwell(machines[1], 1) = 50
    /\ last_message = Some(Report(2, TimestampString(3720, FALSE), Some(2)))
    /\ machines[2].current_yard_id = Some(2)
    /\ machines[2].yard_work_history = << >>
    /\ yards[2] = load_yard_directory[2]

\* --------------------------------------------- the transmission's counts

\* C28: after every step the counts of the transmission satisfy
\* generated = delivered + lost, delayed <= delivered and
\* with_errors <= delivered, generated is the number of reports of the list
\* read so far (the whole list once the transmission has ended), and the
\* number of reports put on the queue is delivered.
C28_TransmissionCounts ==
    LET stats == get_transmission_stats(simulator)
    IN  /\ stats.total_generated = stats.total_delivered + stats.total_lost
        /\ stats.total_lost >= 0
        /\ stats.total_delivered >= 0
        /\ 0 <= stats.total_delayed /\ stats.total_delayed <= stats.total_delivered
        /\ 0 <= stats.total_with_errors
        /\ stats.total_with_errors <= stats.total_delivered
        /\ stats.total_generated = Len(messages)
        /\ stats.total_delivered = Len(ReportsPut)
        /\ main_pc \in {"join", "joined", "done"} =>
              Len(put_log) = stats.total_delivered + 1

\* the transmission of two reports has ended: one was lost, the other was
\* sent late and with wrong coordinates
C28_Witness ==
    /\ main_pc = "join"
    /\ simulator = [ total_generated |-> 2, total_lost |-> 1,
                     total_delayed |-> 1, total_with_errors |-> 1 ]
    /\ Len(put_log) = 2

\* --------------------------------------------- what the transmission alters

\* C29: a report the transmission puts on the queue has the machine_id, the
\* timestamp and the yard_id of the report of the list it was made from, and
\* is that very report unless an error of coordinates was counted for it;
\* the reports of the list the caller gave stay what they were.
C29_OnlyCoordinatesAltered ==
    /\ [](\A i \in 1..Len(messages) : messages[i] \in RealtimeReports)
    /\ [][ /\ Len(messages') >= Len(messages)
           /\ SubSeq(messages', 1, Len(messages)) = messages
           /\ (Len(put_log') > Len(put_log)
                 /\ ~IsNone(put_log'[Len(put_log')])) =>
                LET original == messages'[Len(messages')]
                    delivered == put_log'[Len(put_log')][1]
                IN  /\ Len(messages') = Len(messages) + 1
                    /\ DOMAIN delivered = DOMAIN original
                    /\ SameButCoordinates(delivered, original)
                    /\ simulator'.total_with_errors
                          = simulator.total_with_errors => delivered = original
       ]_vars

\* both reports of the list were sent, and one of them is on the queue's
\* record with coordinates that are not the ones it had in the list
C29_Witness ==
    /\ main_pc = "join"
    /\ Len(messages) = 2
    /\ simulator.total_lost = 0
    /\ simulator.total_with_errors >= 1
    /\ \E i \in 1..2 :
          /\ ReportsPut[i].coordinates # messages[i].coordinates
          /\ SameButCoordinates(ReportsPut[i], messages[i])

\* --------------------------------------------- the count of a real-time run

\* the reports handed to _process_single_message whose timestamp string
\* datetime.fromisoformat accepts
HandedParsed == SelectSeq(handed, LAMBDA message_data : message_data.timestamp.parses)

\* C30: when a real-time run is over, every report the transmission put on
\* the queue has been taken and handed on once, in the order it was put, and
\* processed_messages is the number delivered, total_generated - total_lost.
C30_ProcessedEqualsDelivered ==
    main_pc = "done" =>
        /\ handed = ReportsPut
        /\ message_queue = << >>
        /\ processed_count = get_transmission_stats(simulator).total_delivered

\* what holds instead: every report put is handed on once, and
\* processed_messages counts those of them _process_single_message returned
\* True for, which a report whose timestamp string is no date is not
C30_HandedOnceCountedIfParsed ==
    main_pc = "done" =>
        /\ handed = ReportsPut
        /\ message_queue = << >>
        /\ Len(handed) = get_transmission_stats(simulator).total_delivered
        /\ processed_count = Len(HandedParsed)

\* --------------------------------------------- dwell of machines and yards

\* the seconds of dwell the machines of the set ids have on record for a yard
RECURSIVE DwellOfAll(_, _)
DwellOfAll(ids, yard_id) ==
    IF ids = {} THEN 0
    ELSE LET id == CHOOSE i \in ids : TRUE
         IN  Dwell(machines[id], yard_id) + DwellOfAll(ids \ {id}, yard_id)

Min(a, b) == IF a <= b THEN a ELSE b

EventsOf(yard_id) ==
    SelectSeq(status_changes, LAMBDA change : change.yard_id = yard_id)

\* C33: the status changes logged for any one yard chain: the first has
\* old_status 0, each later one has the new_status of the one before as its
\* old_status, band 0 followed by their new_status values is the yard's
\* status_history, and there are Len(status_history) - 1 of them; no status
\* change names a yard the directory does not have.
C33_LogChainsLikeHistory ==
    /\ \A i \in 1..Len(status_changes) : status_changes[i].yard_id \in DOMAIN yards
    /\ \A yard_id \in DOMAIN yards :
         LET events == EventsOf(yard_id)
             history == yards[yard_id].status_history
         IN  /\ Len(events) = Len(history) - 1
             /\ history[1] = 0
             /\ \A i \in 1..Len(events) :
                  /\ events[i].old_status = history[i]
                  /\ events[i].new_status = history[i + 1]
                  /\ events[i].old_status =
                        (IF i = 1 THEN 0 ELSE events[i - 1].new_status)

\* yard 1 went from band 0 to band 40 and from there to band 100, and the
\* log has the two status changes
C33_Witness ==
    /\ yards[1].status_history = <<0, 40, 100>>
    /\ Len(EventsOf(1)) = 2
    /\ EventsOf(1)[2].old_status = 40

\* --------------------------------------------- coordinates and progress

\* a machine, its coordinates aside
WithoutCoordinates(machine) ==
    [ machine_id |-> machine.machine_id,
      last_update |-> machine.last_update,
      current_yard_id |-> machine.current_yard_id,
      previous_yard_id |-> machine.previous_yard_id,
      yard_work_history |-> machine.yard_work_history,
      yard_entry_time |-> machine.yard_entry_time ]

\* C34: two batch runs over lists that differ in the coordinates of their
\* reports at most end with the same yards (cleaned_area, total_work_time,
\* status, status_history), the same machines but for their coordinates
\* (yard, dwell record, times) and the same list of status changes.
C34_ProgressIgnoresCoordinates ==
    (run = 2 /\ consumed = Len(batch)) =>
        /\ ~IsNone(first)
        /\ first[1].yards = yards
        /\ first[1].status_changes = status_changes
        /\ DOMAIN first[1].machines = DOMAIN machines
        /\ \A id \in DOMAIN machines :
             WithoutCoordinates(first[1].machines[id]) = WithoutCoordinates(machines[id])

\* a second run has finished a list of three reports with a status change,
\* and left machine 1 at coordinates the first run did not leave it at
C34_Witness ==
    /\ run = 2
    /\ Len(batch) = 3
    /\ consumed = 3
    /\ Len(status_changes) >= 1
    /\ DOMAIN machines = {1}
    /\ first[1].machines[1].current_coordinates # machines[1].current_coordinates

\* ------------------------- a batch run over what a real-time run delivered

\* the real-time run is over; a second CleaningMonitoringSystem is
\* constructed, loads the same yard directory and runs in batch mode
RestartInBatchMode ==
    /\ main_pc = "done"
    /\ Restart

\* its batch loop handles the next of the reports the transmission had put
\* on the queue, with the coordinates they were put with
BatchOverDelivered ==
    /\ run = 2
    /\ consumed < Len(ReportsPut)
    /\ ProcessSingleMessage(ReportsPut[consumed + 1])
    /\ UNCHANGED <<twinVars, realtimeVars>>

NextRefinement ==
    \/ NextRealtime
    \/ RestartInBatchMode
    \/ BatchOverDelivered

SpecRefinement == Init /\ [][NextRefinement]_vars

\* C35: the machines, the yards and the list of status changes a real-time
\* run ends with are those of a batch run, on fresh stores, over the reports
\* the transmission delivered, in the order and with the coordinates they
\* were delivered with; with nothing lost and no coordinates altered that
\* list is the list the real-time run was given.
C35_RealtimeRefinesBatch ==
    (run = 2 /\ consumed = Len(ReportsPut)) =>
        /\ first = Some(Stores)
        /\ (simulator.total_lost = 0 /\ simulator.total_with_errors = 0)
              => ReportsPut = messages

\* a real-time run of two reports, neither lost, one with altered
\* coordinates, logged a status change; the batch run over the two has ended
C35_Witness ==
    /\ run = 2
    /\ main_pc = "done"
    /\ Len(ReportsPut) = 2
    /\ consumed = 2
    /\ simulator.total_with_errors = 1
    /\ Len(status_changes) = 1

\* --------------------------------------------- what one report can touch

\* C36: a report of machine m that is processed leaves every other machine
\* as it was, creates no machine but m, and changes no yard other than the
\* yard m was in just before the report: the cleaned_area, total_work_time,
\* status and status_history of every other yard stay what they were.
C36_OneMachineOneYard ==
    [][ ReportHandled =>
          LET id == last_message'[1].machine_id
          IN  /\ DOMAIN machines' \subseteq DOMAIN machines \cup {id}
              /\ \A other \in DOMAIN machines \ {id} :
                    machines'[other] = machines[other]
              /\ DOMAIN yards' = DOMAIN yards
              /\ \A yard_id \in DOMAIN yards :
                    yards'[yard_id] # yards[yard_id] =>
                       /\ id \in DOMAIN machines
                       /\ machines[id].current_yard_id = Some(yard_id)
              /\ Cardinality({ yard_id \in DOMAIN yards :
                                  yards'[yard_id] # yards[yard_id] }) <= 1
      ]_vars

\* with machine 2 on record, machine 1 went from yard 1 to yard 2 and its
\* 50 s were credited to yard 1 alone
C36_Witness ==
    /\ DOMAIN machines = {1, 2}
    /\ ~IsNone(last_message)
    /\ last_message[1].machine_id = 1
    /\ machines[1].previous_yard_id = Some(1)
    /\ machines[1].current_yard_id = Some(2)
    /\ yards[1].total_work_time = 50
    /\ yards[2].total_work_time = 0

\* --------------------------------------------- dwell and elapsed time

\* the seconds of dwell a machine has on record, all yards together
RECURSIVE TotalOf(_)
TotalOf(history) ==
    IF DOMAIN history = {} THEN 0
    ELSE LET yard_id == CHOOSE y \in DOMAIN history : TRUE
         IN  history[yard_id]
               + TotalOf([y \in DOMAIN history \ {yard_id} |-> history[y]])

\* the instants of the reports of a machine in the sorted list processed so
\* far, those with a timestamp that parses
InstantsOf(id) ==
    { batch[i].timestamp.sec :
        i \in { j \in 1..Len(batch) : /\ batch[j].machine_id = id
                                      /\ batch[j].timestamp.parses } }

Latest(instants) == CHOOSE s \in instants : \A t \in instants : t <= s

Earliest(instants) == CHOOSE s \in instants : \A t \in instants : s <= t

C38_SkippedBandsLeaveNoTrace ==
    [][ (/\ ReportHandled
         /\ ~IsNone(last_credit')
         /\ ~IsNone(last_credit'[1].result)) =>
          LET yard_id == last_credit'[1].yard_id
              old_status == yards[yard_id].status
              new_status == last_credit'[1].result[1]
          IN  /\ new_status > old_status
              /\ new_status =
                   get_status_by_percentage(get_completion_percentage(yards'[yard_id]))
              /\ yards'[yard_id].status = new_status
              /\ yards'[yard_id].status_history =
                   Append(yards[yard_id].status_history, new_status)
              /\ Len(status_changes') = Len(status_changes) + 1
              /\ LET change == status_changes'[Len(status_changes')]
                 IN  /\ change.yard_id = yard_id
                     /\ change.old_status = old_status
                     /\ change.new_status = new_status
      ]_vars

\* yard 1 went from band 0 to band 40 with one report and from there to
\* band 100 with the next: bands 20, 60 and 80 are nowhere on record
C38_Witness ==
    /\ yards[1].status_history = <<0, 40, 100>>
    /\ Len(status_changes) = 2
    /\ status_changes[1].old_status = 0
    /\ status_changes[1].new_status = 40
    /\ status_changes[2].old_status = 40
    /\ status_changes[2].new_status = 100

\* --------------------------------------------- task_done for every item

\* the items the worker has taken from the queue and not yet called
\* task_done() for
InHand == IF worker_pc \in {"got", "task_done"} THEN 1 ELSE 0

\* C39: the worker calls task_done() once for every item it takes from the
\* queue, None included, whatever _process_single_message returned: the
\* unfinished tasks are the items still on the queue and the one the worker
\* has in hand, never fewer than none, and none once the worker has left its
\* loop; join() is waited in only while the worker is still there to call
\* task_done(), and has not returned while an item is in hand.
C39_EveryItemAcknowledgedOnce ==
    /\ unfinished_tasks >= 0
    /\ unfinished_tasks = Len(message_queue) + InHand
    /\ Len(put_log) - unfinished_tasks
          = Len(handed) + (IF worker_pc = "exited" THEN 1 ELSE 0)
             - (IF worker_pc = "task_done" THEN 1 ELSE 0)
    /\ worker_pc = "exited" => unfinished_tasks = 0
    /\ (main_pc = "join" /\ unfinished_tasks > 0) => worker_pc # "exited"
    /\ main_pc \in {"joined", "done"} => (InHand = 0 /\ message_queue = << >>)

\* the worker has left its loop after two reports and None; for one of the
\* reports _process_single_message had returned False
C39_Witness ==
    /\ worker_pc = "exited"
    /\ Len(put_log) = 3
    /\ unfinished_tasks = 0
    /\ \E i \in 1..Len(handed) : ~handed[i].timestamp.parses

====
